---- MODULE Spec2Model ----
(***************************************************************************)
(* A model of the VTU bot: the payment reconciliation engine (Paystack     *)
(* webhook handler and fallback polling loop), the wallet ledger and       *)
(* transaction store of DatabaseService, and the per-chat session machine  *)
(* of the Telegram message and callback handlers.                          *)
(*                                                                         *)
(* Scheduling.  Node runs one handler at a time until it reaches an        *)
(* `await`; there the handler is suspended and any other handler may run.  *)
(* Every action below is one such run: it resumes a handler with the       *)
(* result of the call it was suspended on, runs the synchronous code that  *)
(* follows, and issues the next external call.  An external call takes     *)
(* effect (the store is read or written, the gateway answers) when it is   *)
(* issued; the handler consumes the result in its next action, so a value  *)
(* read from the store may be stale by the time it is used.  The record    *)
(* store and the chat transport are taken to answer every call; the        *)
(* payment gateway and the billing provider may fail a call.               *)
(*                                                                         *)
(* The message and callback handlers are wrapped by a Bottleneck limiter   *)
(* with minTime 1000 and no maxConcurrent (index.js line 15): it spaces    *)
(* the starts of handlers a second apart and does not wait for a handler   *)
(* to finish, so a handler suspended on a call that takes longer overlaps  *)
(* the handlers started after it.  Starts are separate actions here and    *)
(* durations are not modelled.  The webhook route and the polling          *)
(* interval are not limited.                                               *)
(*                                                                         *)
(* Money is counted in whole naira; on these values toFixed(2) followed by *)
(* parseFloat returns its argument.                                        *)
(***************************************************************************)
EXTENDS Integers, Sequences, FiniteSets, TLC

VARIABLES
    vtpassTest,     \* process.env.VTPASS_TEST_MODE === "true"
    paystackTest,   \* process.env.PAYSTACK_TEST_MODE === "true"
    userDocs,       \* number of documents of COLLECTIONS.USERS of the Telegram user
    wallets,        \* documents of COLLECTIONS.WALLETS of the user: balances, in creation order
    transactions,   \* documents of COLLECTIONS.TRANSACTIONS, in creation order
    gateway,        \* Paystack's record of each reference it has initialised
    clock,          \* readings of Date.now() taken for references so far
    userSessions,   \* the Map chatId -> session object (0: no entry)
    heap,           \* the session objects
    inactivity,     \* by chat: Date.now() - lastActivity of the chat's session, in sweep
                    \* periods, counted up to the first value beyond SESSION_TIMEOUT
    mh,             \* runs of the message and callback_query handlers in progress
    wh,             \* runs of the webhook handler in progress
    loops,          \* the polling loops started by pollPaymentStatus, by reference
    ticks,          \* runs of the polling loop's interval callback in progress
    ledger,         \* history: what the ledger has applied to the wallet
    credits,        \* history: credits the ledger has applied, by reference
    fired,          \* history: executes started since the chat's session last entered
                    \* a confirm stage
    executes,       \* history: times an execute was started for a chat
    funds,          \* history: /fund commands that passed validation
    userFlow        \* the purchase flow the user of this run follows ("": none)

storeVars   == <<userDocs, wallets, transactions, ledger, credits>>
configVars  == <<vtpassTest, paystackTest, userFlow>>
sessionVars == <<userSessions, heap, inactivity>>
histVars    == <<fired, executes, funds>>
pollVars    == <<loops, ticks>>
vars == <<vtpassTest, paystackTest, userDocs, wallets, transactions, gateway, clock,
          userSessions, heap, inactivity, mh, wh, loops, ticks, ledger, credits, fired, executes,
          funds,
          userFlow>>

(***************************************************************************)
(* Bounds of the model.                                                    *)
(***************************************************************************)
\* references the gateway may initialise (accepted /fund commands)
MaxRefs == 1
\* webhook handler runs that may be in progress at once
MaxWebhooks == 2
\* message or callback handler runs that may be in progress at once
MaxHandlers == 2
\* runs of the interval callback that may be in progress at once
MaxTicks == 1
\* executes a chat may start
MaxExecutes == 2
\* the balance up to which the ledger is called directly
MaxBalance == 1000
\* the longest user id a reference is generated for
MaxIdLen == 2
\* src/index.js:18, SESSION_TIMEOUT in periods of the cleanup; scaled down from 30
SESSION_TIMEOUT == 2

WebhookSlots == 1..MaxWebhooks
HandlerSlots == 1..MaxHandlers
\* one slot more, for the callback that the interval starts while the callbacks
\* before it are all still awaited (TickOverlaps)
TickSlots    == 1..(MaxTicks + 1)

\* the chats: the private chat of the user whose documents the store holds (in a
\* private chat the chat id is the user's id), and the chat of another user
Chats == {1, 2}
TelegramId == 1
Private == {TelegramId}

Null == 0
NaN  == -1
NoWallet == -1
\* undefined, for a field that holds a string, a plan or a reference
None == ""
NoPlan == <<"", 0>>
NoRef == <<"", 0, 0>>

\* src/index.js:141, the default of pollPaymentStatus; scaled down from 30
maxAttempts == 2
\* services/paystack.js:103
maxRetries == 3
\* src/index.js:151, the page size of the poll path's transaction lookup; scaled down
\* from 10
TxPage == 1

isTestMode == vtpassTest \/ paystackTest

(***************************************************************************)
(* References: `${PREFIX}_${id}_${Date.now()}`.                            *)
(***************************************************************************)
\* A reference is kept as the three values the template is filled with; its text is
\* the sequence of characters the template literal produces.
Reference(prefix, id, ts) == <<prefix, id, ts>>

Digit == <<"0", "1", "2", "3", "4", "5", "6", "7", "8", "9">>

\* a number in a template literal: its decimal digits
RECURSIVE toString(_)
toString(n) ==
    IF n < 10 THEN <<Digit[n + 1]>> ELSE toString(n \div 10) \o <<Digit[(n % 10) + 1]>>

\* the characters of the prefixes
CharsMut(word) ==
    CASE word = "FUND" -> <<"F", "U", "N", "D">>
      [] word = "AIRTIME" -> <<"A", "I", "R", "_", "T", "I", "M", "E">>
      [] word = "DATA" -> <<"D", "A", "T", "A">>
      [] word = "ELEC" -> <<"E", "L", "E", "C">>
      [] OTHER -> <<"T", "V">>
Chars(word) ==
    CASE word = "FUND" -> <<"F", "U", "N", "D">>
      [] word = "AIRTIME" -> <<"A", "I", "R", "T", "I", "M", "E">>
      [] word = "DATA" -> <<"D", "A", "T", "A">>
      [] word = "ELEC" -> <<"E", "L", "E", "C">>
      [] OTHER -> <<"T", "V">>

\* `${prefix}_${id}_${ts}`
Template(prefix, id, ts) == prefix \o <<"_">> \o id \o <<"_">> \o ts

\* String.prototype.split: the fields between the occurrences of the separator
RECURSIVE split(_, _)
split(str, sep) ==
    IF \A i \in 1..Len(str) : str[i] # sep THEN <<str>>
    ELSE LET at == CHOOSE i \in 1..Len(str) :
                       str[i] = sep /\ \A j \in 1..(i - 1) : str[j] # sep
         IN  <<SubSeq(str, 1, at - 1)>> \o split(SubSeq(str, at + 1, Len(str)), sep)

\* reference.split("_")[1], undefined when the text has no second field
Second(fields) == IF Len(fields) < 2 THEN <<>> ELSE fields[2]

TextOf(reference) ==
    Template(Chars(reference[1]), toString(reference[2]), toString(reference[3]))

UserIdOf(reference) == Second(split(TextOf(reference), "_"))

FundRef(ts) == Reference("FUND", TelegramId, ts)

\* the references /fund may generate
FundRefs == {FundRef(ts) : ts \in 1..MaxRefs}

(***************************************************************************)
(* DatabaseService.                                                         *)
(***************************************************************************)
getUserByTelegramId == IF userDocs > 0 THEN TelegramId ELSE Null

getUserWallet == IF Len(wallets) > 0 THEN wallets[1] ELSE NoWallet

\* documents[0] of the query by reference, or null
findTransactionByReference(reference) ==
    LET hits == {i \in 1..Len(transactions) : transactions[i].reference = reference}
    IN  IF hits = {} THEN Null ELSE CHOOSE i \in hits : \A j \in hits : i <= j

\* the ids of the newest `limit` documents, newest first
getUserTransactions(limit) ==
    LET n == Len(transactions)
        k == IF n < limit THEN n ELSE limit
    IN  [i \in 1..k |-> n + 1 - i]

\* the first document of a page whose details.reference is `reference`, or undefined
FindInPage(page, reference) ==
    LET hits == {i \in 1..Len(page) : transactions[page[i]].reference = reference}
    IN  IF hits = {} THEN Null ELSE page[CHOOSE i \in hits : \A j \in hits : i <= j]

\* updateWalletBalance, line 95: the arguments it accepts
LedgerAccepts(amount) == amount # NaN /\ ~(amount < 0)

\* updateWalletBalance, lines 101-104
NewBalance(currentBalance, amt, type) ==
    IF type = "credit" THEN currentBalance + amt ELSE currentBalance - amt

\* updateWalletBalance, line 106
InsufficientMut(newBalance) == FALSE
Insufficient(newBalance) == newBalance < 0

\* updateWalletBalance, lines 108-114: the write of the wallet document read before
WriteBalance(newBalance) == [wallets EXCEPT ![1] = newBalance]

\* createTransaction, line 130
TxDataValid(amount, type) == amount # 0 /\ amount # NaN /\ type # ""

NewTransaction(type, amount, reference, status) ==
    [type |-> type, amount |-> amount, reference |-> reference, status |-> status]

createTransaction(type, amount, reference, status) ==
    Append(transactions, NewTransaction(type, amount, reference, status))

updateTransaction(id, status) == [transactions EXCEPT ![id].status = status]

\* history of the ledger: the sum of the credits less the debits it has written
Applied(amt, type) == IF type = "credit" THEN ledger + amt ELSE ledger - amt

(***************************************************************************)
(* Inbound texts and callback data.  A text is known by what the handlers  *)
(* compute from it: parseFloat, the digits left by replace(/\D/g, ""),     *)
(* and whether the whole text is digits.                                   *)
(***************************************************************************)
MenuTexts == {"Buy Airtime", "Buy Data", "Pay Electricity", "Pay TV",
              "Fund Wallet", "Check Balance", "Transaction History", "Help"}
FundTexts == {"/fund 500", "/fund 50"}
NumberTexts == {"20", "70", "2000", "0201234567"}
CodeTexts == {"M1024", "m2024", "dstv-padi"}
Texts == MenuTexts \cup FundTexts \cup NumberTexts \cup CodeTexts
            \cup {"(020)1234567", "yes", "YES", "cancel"}

\* parseFloat(sanitizedText)
parseFloat(text) ==
    CASE text = "20" -> 20
      [] text = "70" -> 70
      [] text = "2000" -> 2000
      [] text = "0201234567" -> 201234567
      [] OTHER -> NaN

\* parseFloat(sanitizedText.split(" ")[1]) of a text matching /^\/fund (\d+)/
FundAmountOf(text) ==
    CASE text = "/fund 500" -> 500
      [] text = "/fund 50" -> 50
      [] OTHER -> NaN

\* sanitizedText.replace(/\D/g, "").length
DigitCount(text) ==
    CASE text = "20" -> 2
      [] text = "70" -> 2
      [] text = "2000" -> 4
      [] text = "0201234567" -> 10
      [] text = "(020)1234567" -> 10
      [] text = "M1024" -> 4
      [] text = "m2024" -> 4
      [] text = "/fund 500" -> 3
      [] text = "/fund 50" -> 2
      [] OTHER -> 0

\* /^\d{10,14}$/.test(sanitizedText.replace(/\D/g, ""))
ValidPhoneMut(text) == TRUE
ValidPhone(text) == DigitCount(text) >= 10 /\ DigitCount(text) <= 14

\* /^\d{10,}$/.test(sanitizedText.trim())
ValidMeter(text) == text \in NumberTexts /\ DigitCount(text) >= 10

\* vcode.toLowerCase() and sanitizedText.toLowerCase()
toLowerCaseMut(code) == code
toLowerCase(code) ==
    CASE code = "M1024" -> "m1024"
      [] code = "M2024" -> "m2024"
      [] code = "YES" -> "yes"
      [] OTHER -> code

\* SUPPORTED_NETWORKS, by airtime_code; the data_code of each
SUPPORTED_NETWORKS == {"mtn", "glo", "airtel", "etisalat"}
DataCode(network) ==
    CASE network = "mtn" -> "mtn-data"
      [] network = "glo" -> "glo-data"
      [] network = "airtel" -> "airtel-data"
      [] OTHER -> "etisalat-data"
SUPPORTED_ELECTRICITY_PROVIDERS == {"eko-electric", "kano-electric", "portharcourt-electric"}
SUPPORTED_TV_PROVIDERS == {"dstv", "gotv", "startimes"}

\* the callback data the model delivers
CallbackData == {"cancel_operation",
                 "airtime_network_mtn", "airtime_network_bogus",
                 "data_network_mtn", "electricity_provider_eko-electric",
                 "tv_provider_dstv"}

\* data.startsWith(prefix) and data.replace(prefix, "")
CallbackPrefix(data) ==
    CASE data \in {"airtime_network_mtn", "airtime_network_bogus"} -> "airtime_network_"
      [] data = "data_network_mtn" -> "data_network_"
      [] data = "electricity_provider_eko-electric" -> "electricity_provider_"
      [] data = "tv_provider_dstv" -> "tv_provider_"
      [] OTHER -> ""
CallbackCode(data) ==
    CASE data = "airtime_network_mtn" -> "mtn"
      [] data = "airtime_network_bogus" -> "bogus"
      [] data = "data_network_mtn" -> "mtn"
      [] data = "electricity_provider_eko-electric" -> "eko-electric"
      [] data = "tv_provider_dstv" -> "dstv"
      [] OTHER -> ""

\* variation lists a lookup may return: plans as <<variation_code, variation_amount>>;
\* Undefined stands for a list that was never assigned
Undefined == <<NoPlan>>
MtnPlans  == <<<<"M1024", 500>>, <<"M2024", 1000>>>>
DstvPlans == <<<<"dstv-padi", 2500>>>>

(***************************************************************************)
(* Session objects.  userSessions maps a chat to an object of the heap; a  *)
(* handler keeps the object it fetched when it started, also after the     *)
(* chat's entry was deleted or replaced.                                   *)
(***************************************************************************)
MaxObjects == MaxHandlers + Cardinality(Chats)
Objects == 1..MaxObjects

NoStage == "none"

NewSession ==
    [stage |-> NoStage, airtimeNetwork |-> None, airtimeAmount |-> Null, phone |-> None,
     dataNetwork |-> None, dataPhone |-> None, variations |-> Undefined, variation |-> NoPlan,
     electricityProvider |-> None, meter |-> None, amount |-> Null,
     tvProvider |-> None, card |-> None]

(***************************************************************************)
(* Runs of the message and callback_query handlers.  A run's record holds  *)
(* the handler's local variables and, as history, what the run has done.   *)
(***************************************************************************)
NoResult == [code |-> "", status |-> ""]

IdleHandler ==
    [pc |-> "idle", kind |-> "", chat |-> Null, text |-> "", service |-> "", sess |-> Null,
     flow |-> "",
     user |-> Null, balance |-> NoWallet, cost |-> Null, result |-> NoResult,
     reference |-> NoRef,
     confirmed |-> Null, checked |-> Null, debited |-> Null, sent |-> Null,
     recorded |-> Null, status |-> "", outcome |-> "", replies |-> 0,
     attempt |-> 0, requests |-> 0]

Busy(r) == r.pc \notin {"idle", "done"}

\* the first slot with no run in progress
FirstFree(runs, slots) ==
    CHOOSE x \in slots : ~Busy(runs[x]) /\ \A y \in slots : ~Busy(runs[y]) => x <= y

\* where a run is suspended with nothing left to read from its session object
Blind == {"cbAnswer", "dataVariations", "tvVariations", "meterVerify", "queryUser", "queryData"}

\* the objects reachable from the Map or from a run in progress that may read its object
Referenced(us, m) ==
    ({us[c] : c \in Chats}
        \cup {m[x].sess : x \in {y \in HandlerSlots : Busy(m[y]) /\ m[y].pc \notin Blind}})
    \ {Null}

\* a run's writes to an object that nothing will read are dropped with its reference
Sever(us, m) ==
    [x \in HandlerSlots |->
        IF m[x].pc \in Blind /\ m[x].sess \notin Referenced(us, m)
        THEN [m[x] EXCEPT !.sess = Null] ELSE m[x]]

\* the heap with object o replaced, if the run still holds one
Put(hp, o, s) == IF o = Null THEN hp ELSE [hp EXCEPT ![o] = s]

\* the runs in progress first, then the finished run that is remembered
Pack(runs, idle) ==
    LET busy == SelectSeq(runs, Busy)
        done == SelectSeq(runs, LAMBDA r : r.pc = "done")
    IN  busy \o done \o [i \in 1..(Len(runs) - Len(busy) - Len(done)) |-> idle]

\* unreachable objects are forgotten
Collect(us, m, hp) ==
    [o \in Objects |-> IF o \in Referenced(us, m) THEN hp[o] ELSE NewSession]

FreeObject(us, m) ==
    CHOOSE o \in Objects \ Referenced(us, m) : \A p \in Objects \ Referenced(us, m) : o <= p

ConfirmStages == {"confirm_airtime", "confirm_data", "confirm_electricity", "confirm_tv"}

FlowOf(stage) ==
    CASE stage = "confirm_airtime" -> "airtime"
      [] stage = "confirm_data" -> "data"
      [] stage = "confirm_electricity" -> "electricity"
      [] stage = "confirm_tv" -> "tv"
      [] OTHER -> ""

\* the cost an execute of `flow` reads from the session object
CostOf(flow, s) ==
    CASE flow = "airtime" -> s.airtimeAmount
      [] flow = "electricity" -> s.amount
      [] OTHER -> s.variation[2]

\* session.variations.find(v => v.variation_code.toLowerCase() === vcode.toLowerCase())
FindVariation(variations, vcode) ==
    LET hits == {i \in 1..Len(variations) :
                    toLowerCase(variations[i][1]) = toLowerCase(vcode)}
    IN  IF hits = {} THEN NoPlan
        ELSE variations[CHOOSE i \in hits : \A j \in hits : i <= j]

(***************************************************************************)
(* The synchronous part of the message handler: from the stage of the      *)
(* session object `s` and the text, the object as the handler leaves it,   *)
(* whether the chat's entry is deleted, the replies sent, and where the    *)
(* handler is suspended next ("done": it returned; "unknown": it returned  *)
(* with the reply of line 1114).                                           *)
(***************************************************************************)
Stay(s, pc, replies) == [s |-> s, del |-> FALSE, pc |-> pc, replies |-> replies]
Drop(s, replies) == [s |-> s, del |-> TRUE, pc |-> "done", replies |-> replies]

\* session.stage = null at the start of an execute (lines 629, 744, 843, 950)
ClearStageMut(s) == s
ClearStage(s) == [s EXCEPT !.stage = NoStage]

\* a confirm stage: 'yes' starts the execute, 'cancel' aborts, anything else re-prompts
Confirm(s, text) ==
    IF toLowerCase(text) = "yes" THEN Stay(ClearStage(s), "execUser", 0)
    ELSE IF toLowerCase(text) = "cancel" THEN Drop(s, 1)
    ELSE Stay(s, "done", 1)

\* the texts handled once no stage branch has returned (lines 998-1119)
Commands(s, text) ==
    CASE text \in FundTexts ->
            IF FundAmountOf(text) = NaN \/ FundAmountOf(text) < 100
            THEN Stay(s, "done", 1) ELSE Stay(s, "fundUser", 0)
      [] text = "Buy Airtime" -> Stay([s EXCEPT !.stage = "awaiting_airtime_network"], "done", 1)
      [] text = "Buy Data" -> Stay([s EXCEPT !.stage = "awaiting_data_network"], "done", 1)
      [] text = "Pay Electricity" ->
            Stay([s EXCEPT !.stage = "awaiting_electricity_provider"], "done", 1)
      [] text = "Pay TV" -> Stay([s EXCEPT !.stage = "awaiting_tv_provider"], "done", 1)
      [] text \in {"Fund Wallet", "Help"} -> Stay(s, "done", 1)
      [] text \in {"Check Balance", "Transaction History"} -> Stay(s, "queryUser", 0)
      [] OTHER -> IF s.stage = NoStage THEN Stay(s, "unknown", 1) ELSE Stay(s, "done", 0)

Dispatch(s, text) ==
    CASE s.stage = "awaiting_airtime_amount" ->
            IF parseFloat(text) = NaN \/ parseFloat(text) < 50 THEN Stay(s, "done", 1)
            ELSE Stay([s EXCEPT !.airtimeAmount = parseFloat(text),
                                !.stage = "awaiting_airtime_phone"], "done", 1)
      [] s.stage = "awaiting_airtime_phone" ->
            IF ~ValidPhone(text) THEN Stay(s, "done", 1)
            ELSE Stay([s EXCEPT !.phone = text, !.stage = "confirm_airtime"], "done", 1)
      [] s.stage = "awaiting_data_phone" ->
            IF ~ValidPhone(text) THEN Stay(s, "done", 1)
            ELSE Stay([s EXCEPT !.dataPhone = text, !.stage = "awaiting_data_variation"],
                      "dataVariations", 0)
      [] s.stage \in {"awaiting_data_variation", "awaiting_tv_variation"} ->
            IF s.variations = Undefined THEN Drop(s, 1)    \* TypeError, caught at line 1120
            ELSE IF FindVariation(s.variations, text) = NoPlan THEN Stay(s, "done", 1)
            ELSE Stay([s EXCEPT !.variation = FindVariation(s.variations, text),
                                !.stage = IF s.stage = "awaiting_data_variation"
                                          THEN "confirm_data" ELSE "confirm_tv"], "done", 1)
      [] s.stage = "awaiting_meter_number" ->
            IF ~ValidMeter(text) THEN Stay(s, "done", 1)
            ELSE Stay([s EXCEPT !.meter = text], "meterVerify", 0)
      [] s.stage = "awaiting_meter_amount" ->
            IF parseFloat(text) = NaN \/ parseFloat(text) < 100 THEN Stay(s, "done", 1)
            ELSE Stay([s EXCEPT !.amount = parseFloat(text),
                                !.stage = "confirm_electricity"], "done", 1)
      [] s.stage = "awaiting_card_number" ->
            IF ~ValidMeter(text) THEN Stay(s, "done", 1)
            ELSE Stay([s EXCEPT !.card = text, !.stage = "awaiting_tv_variation"],
                      "tvVariations", 0)
      [] s.stage \in ConfirmStages -> Confirm(s, text)
      [] OTHER -> Commands(s, text)

(***************************************************************************)
(* The billing provider (VTPassService).                                   *)
(***************************************************************************)
Delivered == [code |-> "000", status |-> "delivered"]
PendingDelivery == [code |-> "000", status |-> "pending"]
Rejected == [code |-> "016", status |-> ""]
Thrown == [code |-> "throw", status |-> ""]
\* an accepted answer with no content.transactions.status, and a refusal that
\* carries a delivery status
Unmarked == [code |-> "000", status |-> ""]
Refused == [code |-> "016", status |-> "delivered"]

\* makeRequest("pay", ...): the simulated response in test mode, else the
\* provider's answer, or the error thrown when the request fails
PayOutcomes ==
    IF vtpassTest THEN {Delivered}
    ELSE {Delivered, PendingDelivery, Unmarked, Refused, Rejected, Thrown}

\* the verdict, lines 650-654 (and 762, 858, 964)
VerdictMut(result) == "success"
Verdict(result) ==
    IF result.code = "000" /\ result.status = "delivered" THEN "success" ELSE "failed"

\* the plans of a service
PlansOf(serviceID) ==
    CASE serviceID = "mtn-data" -> MtnPlans
      [] serviceID = "dstv" -> DstvPlans
      [] OTHER -> <<>>

\* getVariations: the content of the answer, as [varations, variations], each a
\* list or Undefined.  getMockVariations spells the key `variations`; the
\* provider's answer spells it `varations`, may have no content, or the request fails.
VariationOutcomes(serviceID) ==
    IF vtpassTest
    THEN {[code |-> "000", varations |-> Undefined, variations |-> PlansOf(serviceID)]}
    ELSE {[code |-> "000", varations |-> PlansOf(serviceID), variations |-> Undefined],
          [code |-> "001", varations |-> Undefined, variations |-> Undefined],
          [code |-> "throw", varations |-> Undefined, variations |-> Undefined]}

\* variations.content?.varations || []
VarationsOfMut(response) == response.varations
VarationsOf(response) == IF response.varations = Undefined THEN <<>> ELSE response.varations

\* verifyMeterNumber: the code of the answer
MeterOutcomes == IF vtpassTest THEN {"000"} ELSE {"000", "011", "throw"}

TxType(flow) == flow
Prefix(flow) ==
    CASE flow = "airtime" -> "AIRTIME"
      [] flow = "data" -> "DATA"
      [] flow = "electricity" -> "ELEC"
      [] OTHER -> "TV"

(***************************************************************************)
(* Steps of the message handler.                                           *)
(***************************************************************************)
\* of the finished runs only the latest is remembered
Latest(old, new, idle) ==
    [x \in DOMAIN new |->
        IF new[x].pc = "done" /\ \E y \in DOMAIN new : y # x /\ new[y].pc = "done"
                                                         /\ old[y].pc # "done"
        THEN idle ELSE new[x]]

\* the state after a step of a handler; `since` is the time without activity of the chats' sessions,
\* kept for the chats that have one
CommitAt(m, us, hp, since) ==
    /\ mh' = Pack(Latest(mh, Sever(us, m), IdleHandler), IdleHandler)
    /\ userSessions' = us
    /\ heap' = Collect(us, m, hp)
    /\ inactivity' = [c \in Chats |-> IF us[c] = Null THEN 0 ELSE since[c]]

Commit(m, us, hp) == CommitAt(m, us, hp, inactivity)

DeletedMut(c) == [x \in Chats |-> Null]
DeletedSkipMut(c) == userSessions
Deleted(c) == [userSessions EXCEPT ![c] = Null]

\* the handler returned after sending `n` more replies; of a finished run the history,
\* the outcome and the number of replies are kept, and the text if it was not understood
Return(r, outcome, n) ==
    [IdleHandler EXCEPT !.pc = "done", !.text = IF outcome = "unknown" THEN r.text ELSE "",
                        !.flow = r.flow,
                        !.confirmed = r.confirmed, !.checked = r.checked,
                        !.debited = r.debited, !.sent = r.sent, !.result = r.result,
                        !.recorded = r.recorded, !.status = r.status,
                        !.reference = r.reference,
                        !.requests = r.requests,
                        !.outcome = outcome, !.replies = r.replies + n]

\* a text message arrives for chat c (lines 575-592, then the dispatch)
MsgStart(c, text) ==
    /\ \E x \in HandlerSlots : ~Busy(mh[x])
    /\ executes[c] < MaxExecutes
    /\ LET h == FirstFree(mh, HandlerSlots)
           fresh == userSessions[c] = Null
           o == IF fresh THEN FreeObject(userSessions, mh) ELSE userSessions[c]
           s == IF fresh THEN NewSession ELSE heap[o]
           br == Dispatch(s, text)
           starts == br.pc = "execUser"
           flow == IF starts THEN FlowOf(s.stage) ELSE ""
           returns == br.pc \in {"done", "unknown"}
           run == [IdleHandler EXCEPT
                      !.pc = br.pc, !.kind = "message", !.chat = c, !.sess = o,
                      !.flow = flow,
                      !.text = text,
                      !.service = CASE br.pc = "dataVariations" -> DataCode(s.dataNetwork)
                                    [] br.pc = "tvVariations" -> s.tvProvider
                                    [] OTHER -> "",
                      !.user = IF br.pc \in {"execUser", "fundUser", "queryUser"}
                               THEN getUserByTelegramId ELSE Null,
                      !.cost = IF br.pc = "fundUser" THEN FundAmountOf(text) ELSE Null,
                      !.confirmed = IF starts THEN CostOf(flow, s) ELSE Null,
                      !.replies = br.replies]
       IN  /\ br.pc = "fundUser" => funds < MaxRefs
           /\ CommitAt([mh EXCEPT ![h] =
                           IF returns
                           THEN Return(run, IF br.pc = "done" THEN "replied" ELSE "unknown", 0)
                           ELSE run],
                       [userSessions EXCEPT ![c] = IF br.del THEN Null ELSE o],
                       [heap EXCEPT ![o] = br.s],
                       [inactivity EXCEPT ![c] = 0])
           /\ fired' = [fired EXCEPT ![c] =
                           IF br.s.stage \in ConfirmStages /\ s.stage \notin ConfirmStages
                           THEN 0 ELSE IF starts THEN @ + 1 ELSE @]
           /\ executes' = [executes EXCEPT ![c] = IF starts THEN @ + 1 ELSE @]
           /\ funds' = IF br.pc = "fundUser" THEN funds + 1 ELSE funds
    /\ UNCHANGED <<configVars, storeVars, gateway, clock, wh, pollVars>>

CatchMut(h) ==
    /\ Commit([mh EXCEPT ![h] = Return(@, "error", 1)], userSessions, heap)
    /\ UNCHANGED <<storeVars, clock>>

\* the catch of the message handler, lines 1120-1127
Catch(h) ==
    /\ Commit([mh EXCEPT ![h] = Return(@, "error", 1)], Deleted(mh[h].chat), heap)
    /\ UNCHANGED <<storeVars, clock>>

\* execute: getUserByTelegramId returned; user.$id, then getUserWallet
ExecGotUser(h) ==
    /\ mh[h].pc = "execUser"
    /\ IF mh[h].user = Null
       THEN Catch(h)
       ELSE /\ Commit([mh EXCEPT ![h].pc = "execWallet", ![h].balance = getUserWallet],
                      userSessions, heap)
            /\ UNCHANGED <<storeVars, clock>>
    /\ UNCHANGED <<configVars, gateway, wh, pollVars, histVars>>

\* the balance check of an execute, lines 632, 748, 846 and 953
ShortMut(balance, cost) == balance = NoWallet
Short(balance, cost) == balance = NoWallet \/ balance < cost

\* execute: the wallet returned; the balance check, then updateWalletBalance(.., "debit")
\* up to its own getUserWallet
ExecGotWallet(h) ==
    /\ mh[h].pc = "execWallet"
    /\ LET r == mh[h]
           cost == CostOf(r.flow, heap[r.sess])
       IN  IF Short(r.balance, cost)
           THEN /\ Commit([mh EXCEPT ![h] = Return([@ EXCEPT !.checked = cost], "insufficient", 1)],
                          Deleted(r.chat), heap)
                /\ UNCHANGED <<storeVars, clock>>
           ELSE IF ~LedgerAccepts(cost)
           THEN Catch(h)
           ELSE /\ Commit([mh EXCEPT ![h].pc = "execDebitRead", ![h].checked = cost,
                                     ![h].cost = cost, ![h].balance = getUserWallet],
                          userSessions, heap)
                /\ UNCHANGED <<storeVars, clock>>
    /\ UNCHANGED <<configVars, gateway, wh, pollVars, histVars>>

\* execute: updateWalletBalance read the wallet; the new balance is checked and written
ExecDebitRead(h) ==
    /\ mh[h].pc = "execDebitRead"
    /\ LET r == mh[h]
           newBalance == NewBalance(r.balance, r.cost, "debit")
       IN  IF r.balance = NoWallet \/ Insufficient(newBalance)
           THEN Catch(h)
           ELSE /\ wallets' = WriteBalance(newBalance)
                /\ ledger' = Applied(r.cost, "debit")
                /\ Commit([mh EXCEPT ![h].pc = "execDebitWrite", ![h].debited = r.cost],
                          userSessions, heap)
                /\ UNCHANGED <<userDocs, transactions, credits, clock>>
    /\ UNCHANGED <<configVars, gateway, wh, pollVars, histVars>>

\* execute: the debit is written; the provider is called with what the session holds now
ExecDebited(h) ==
    /\ mh[h].pc = "execDebitWrite"
    /\ Commit([mh EXCEPT ![h].pc = "execProvider",
                         ![h].sent = CostOf(mh[h].flow, heap[mh[h].sess])],
              userSessions, heap)
    /\ UNCHANGED <<configVars, storeVars, gateway, clock, wh, pollVars, histVars>>

\* the amount createTransaction is given: the session's amount as it is now in the
\* airtime and electricity flows, the local `cost` in the data and tv flows
RecordedAmount(r) ==
    IF r.flow \in {"airtime", "electricity"} THEN CostOf(r.flow, heap[r.sess]) ELSE r.cost

\* execute: the provider call returned or threw; the verdict, then createTransaction
ExecProviderReturned(h, result) ==
    /\ mh[h].pc = "execProvider"
    /\ result \in PayOutcomes
    /\ LET r == mh[h]
           amount == RecordedAmount(r)
           reference == Reference(Prefix(r.flow), r.user, clock + 1)
       IN  IF result = Thrown \/ ~TxDataValid(amount, TxType(r.flow))
           THEN /\ Catch(h)
           ELSE /\ transactions' =
                       createTransaction(TxType(r.flow), amount, reference, Verdict(result))
                /\ clock' = clock + 1
                /\ Commit([mh EXCEPT ![h].pc = "execTx", ![h].result = result,
                                     ![h].status = Verdict(result), ![h].recorded = amount,
                                     ![h].reference = reference],
                          userSessions, heap)
                /\ UNCHANGED <<userDocs, wallets, ledger, credits>>
    /\ UNCHANGED <<configVars, gateway, wh, pollVars, histVars>>

\* execute: the record is written; the chat's entry is deleted and the outcome sent
ExecRecorded(h) ==
    /\ mh[h].pc = "execTx"
    /\ Commit([mh EXCEPT ![h] = Return(@, mh[h].status, 1)], Deleted(mh[h].chat), heap)
    /\ UNCHANGED <<configVars, storeVars, gateway, clock, wh, pollVars, histVars>>

\* awaiting_data_phone / awaiting_card_number: getVariations returned or threw
VariationsReturned(h, response) ==
    /\ mh[h].pc \in {"dataVariations", "tvVariations"}
    /\ response \in VariationOutcomes(mh[h].service)
    /\ LET r == mh[h]
           list == VarationsOf(response)
       IN  IF response.code = "throw"
           THEN Catch(h)
           ELSE /\ Commit([mh EXCEPT ![h] = Return(@, IF list = <<>> THEN "noPlans"
                                                       ELSE "replied", 1)],
                          IF list = <<>> THEN Deleted(r.chat) ELSE userSessions,
                          Put(heap, r.sess, [heap[r.sess] EXCEPT !.variations = list]))
                /\ UNCHANGED <<storeVars, clock>>
    /\ UNCHANGED <<configVars, gateway, wh, pollVars, histVars>>

\* awaiting_meter_number: verifyMeterNumber returned or threw
MeterVerified(h, code) ==
    /\ mh[h].pc = "meterVerify"
    /\ code \in MeterOutcomes
    /\ LET r == mh[h]
       IN  IF code = "throw"
           THEN Catch(h)
           ELSE /\ Commit([mh EXCEPT ![h] = Return(@, IF code # "000" THEN "unverified"
                                                       ELSE "replied", 1)],
                          IF code # "000" THEN Deleted(r.chat) ELSE userSessions,
                          IF code # "000" THEN heap
                          ELSE Put(heap, r.sess,
                                   [heap[r.sess] EXCEPT !.stage = "awaiting_meter_amount"]))
                /\ UNCHANGED <<storeVars, clock>>
    /\ UNCHANGED <<configVars, gateway, wh, pollVars, histVars>>

\* Check Balance / Transaction History: the user returned; user.$id, then the query
QueryGotUser(h) ==
    /\ mh[h].pc = "queryUser"
    /\ IF mh[h].user = Null
       THEN Catch(h)
       ELSE /\ Commit([mh EXCEPT ![h].pc = "queryData"], userSessions, heap)
            /\ UNCHANGED <<storeVars, clock>>
    /\ UNCHANGED <<configVars, gateway, wh, pollVars, histVars>>

QueryReturned(h) ==
    /\ mh[h].pc = "queryData"
    /\ Commit([mh EXCEPT ![h] = Return(@, "replied", 1)], userSessions, heap)
    /\ UNCHANGED <<configVars, storeVars, gateway, clock, wh, pollVars, histVars>>

(***************************************************************************)
(* /fund <amount>, lines 998-1047, and the fall-through that follows it.   *)
(***************************************************************************)
\* paystack.initializePayment: a link, an answer without a link, or an error
InitOutcomes == {"url", "nourl", "throw"}

NewPayment(amount) == [status |-> "pending", amount |-> amount, link |-> FALSE]

\* the user returned; the reference is generated and the payment initialised
FundGotUser(h, outcome) ==
    /\ mh[h].pc = "fundUser"
    /\ outcome \in InitOutcomes
    /\ LET r == mh[h]
           reference == FundRef(clock + 1)
       IN  IF r.user = Null
           THEN \* user.email throws; the inner catch answers and returns
                /\ outcome = "throw"
                /\ Commit([mh EXCEPT ![h] = Return(@, "replied", 1)], userSessions, heap)
                /\ UNCHANGED <<gateway, clock>>
           ELSE /\ clock' = clock + 1
                /\ gateway' = IF outcome = "url"
                              THEN gateway @@ (reference :> NewPayment(r.cost)) ELSE gateway
                /\ Commit([mh EXCEPT ![h].pc = "fundInit", ![h].reference = reference,
                                     ![h].service = outcome],
                          userSessions, heap)
    /\ UNCHANGED <<configVars, storeVars, wh, pollVars, histVars>>

\* initializePayment returned or threw; with a link, the pending record is created
FundInitialised(h) ==
    /\ mh[h].pc = "fundInit"
    /\ LET r == mh[h]
       IN  IF r.service # "url" \/ ~TxDataValid(r.cost, "credit")
           THEN /\ Commit([mh EXCEPT ![h] = Return(@, "replied", 1)], userSessions, heap)
                /\ UNCHANGED transactions
           ELSE /\ transactions' = createTransaction("credit", r.cost, r.reference, "pending")
                /\ Commit([mh EXCEPT ![h].pc = "fundTx"], userSessions, heap)
    /\ UNCHANGED <<configVars, userDocs, wallets, ledger, credits, gateway, clock, wh,
                   pollVars, histVars>>

\* the record is created; the payment link is sent to the chat
FundRecorded(h) ==
    /\ mh[h].pc = "fundTx"
    /\ gateway' = [gateway EXCEPT ![mh[h].reference].link = TRUE]
    /\ Commit([mh EXCEPT ![h].pc = "fundLink", ![h].replies = @ + 1], userSessions, heap)
    /\ UNCHANGED <<configVars, storeVars, clock, wh, pollVars, histVars>>

NewLoop(c, amount) == [active |-> TRUE, attempts |-> 0, chat |-> c, amount |-> amount]

\* the link is sent; pollPaymentStatus in test mode; then the handler runs on past the
\* /fund branch to the `!session.stage` test of line 1114
FundLinkSent(h) ==
    /\ mh[h].pc = "fundLink"
    /\ LET r == mh[h]
           unknown == heap[r.sess].stage = NoStage
       IN  /\ loops' = IF isTestMode
                       THEN loops @@ (r.reference :> NewLoop(r.chat, r.cost)) ELSE loops
           /\ Commit([mh EXCEPT ![h] = Return(@, "funded", IF unknown THEN 1 ELSE 0)],
                     userSessions, heap)
    /\ UNCHANGED <<configVars, storeVars, gateway, clock, wh, ticks, histVars>>

(***************************************************************************)
(* PaystackService called directly: initializePayment with makeRequest,    *)
(* lines 30-66 and 102-125 of services/paystack.js, and verifyPayment,     *)
(* lines 68-99.  A run's record holds makeRequest's `attempt` and counts,  *)
(* as history, the HTTP requests the call has issued.                      *)
(***************************************************************************)
\* the status of the answer to a request; 0: no answer (error.response is undefined)
Responses == {0, 200, 429, 500}

Emails == {"", "user@example.com"}

\* line 115: the error is a rate limit and an attempt is left
RetriesMut(status, attempt) == status # 200
Retries(status, attempt) == status = 429 /\ attempt < maxRetries - 1

\* lines 30-44: the test of the arguments, then makeRequest's first axios.post
initializePayment(email, amount, reference) ==
    /\ \E x \in HandlerSlots : ~Busy(mh[x])
    /\ LET h == FirstFree(mh, HandlerSlots)
           run == [IdleHandler EXCEPT !.kind = "initializePayment", !.text = email,
                                      !.cost = amount, !.reference = reference]
       IN  Commit([mh EXCEPT ![h] = IF email = "" \/ amount = 0 \/ reference = NoRef
                                    THEN Return(run, "initFailed", 0)
                                    ELSE [run EXCEPT !.pc = "post", !.requests = 1]],
                  userSessions, heap)
    /\ UNCHANGED <<configVars, storeVars, gateway, clock, wh, pollVars, histVars>>

\* lines 106-124: axios.post returned or threw
Posted(h, status) ==
    /\ mh[h].pc = "post"
    /\ status \in Responses
    /\ Commit([mh EXCEPT ![h] =
                  IF status = 200 THEN Return(@, "initialized", 0)
                  ELSE IF Retries(status, mh[h].attempt)
                  THEN [@ EXCEPT !.attempt = @ + 1, !.requests = @ + 1]
                  ELSE Return(@, "initFailed", 0)],
              userSessions, heap)
    /\ UNCHANGED <<configVars, storeVars, gateway, clock, wh, pollVars, histVars>>

\* lines 68-84: the test of the argument, then axios.get
verifyPayment(reference) ==
    /\ \E x \in HandlerSlots : ~Busy(mh[x])
    /\ LET h == FirstFree(mh, HandlerSlots)
           run == [IdleHandler EXCEPT !.kind = "verifyPayment", !.reference = reference]
       IN  Commit([mh EXCEPT ![h] = IF reference = NoRef
                                    THEN Return(run, "verifyFailed", 0)
                                    ELSE [run EXCEPT !.pc = "get", !.requests = 1]],
                  userSessions, heap)
    /\ UNCHANGED <<configVars, storeVars, gateway, clock, wh, pollVars, histVars>>

\* lines 84-98: axios.get returned or threw
Got(h, status) ==
    /\ mh[h].pc = "get"
    /\ status \in Responses
    /\ Commit([mh EXCEPT ![h] = IF status = 200 THEN Return(@, "verified", 0)
                                ELSE Return(@, "verifyFailed", 0)],
              userSessions, heap)
    /\ UNCHANGED <<configVars, storeVars, gateway, clock, wh, pollVars, histVars>>

(***************************************************************************)
(* DatabaseService.updateWalletBalance called with any amount, lines 93-119 *)
(* of database.js: the test of the arguments, getUserWallet, then the      *)
(* write.                                                                  *)
(***************************************************************************)
Amounts == {NaN, -100, 0, 50, 100, 500}

updateWalletBalance(amount, type) ==
    /\ \A x \in HandlerSlots : ~Busy(mh[x])        \* the calls are made one at a time
    /\ amount \in Amounts
    /\ type \in {"credit", "debit"}
    /\ getUserWallet <= MaxBalance
    /\ LET h == FirstFree(mh, HandlerSlots)
           run == [IdleHandler EXCEPT !.kind = "ledger", !.service = type, !.cost = amount,
                                      !.user = TelegramId]
       IN  Commit([mh EXCEPT ![h] = IF LedgerAccepts(amount)
                                    THEN [run EXCEPT !.pc = "ledgerRead",
                                                     !.balance = getUserWallet]
                                    ELSE Return(run, "error", 0)],
                  userSessions, heap)
    /\ UNCHANGED <<configVars, storeVars, gateway, clock, wh, pollVars, histVars>>

\* the wallet returned: lines 98-114
WalletUpdated(h) ==
    /\ mh[h].pc = "ledgerRead"
    /\ LET r == mh[h]
           newBalance == NewBalance(r.balance, r.cost, r.service)
       IN  IF r.balance = NoWallet \/ Insufficient(newBalance)
           THEN /\ Commit([mh EXCEPT ![h] = Return(@, "error", 0)], userSessions, heap)
                /\ UNCHANGED <<wallets, ledger>>
           ELSE /\ wallets' = WriteBalance(newBalance)
                /\ ledger' = Applied(r.cost, r.service)
                /\ Commit([mh EXCEPT ![h] = Return([@ EXCEPT !.checked = r.cost], "written", 0)],
                          userSessions, heap)
    /\ UNCHANGED <<configVars, userDocs, transactions, credits, gateway, clock, wh, pollVars,
                   histVars>>

(***************************************************************************)
(* bot.onText(/\/start/), lines 326-394: db.createUser, then the welcome.   *)
(* The documents of the first user document are the ones every other       *)
(* operation reads (response.documents[0]); `wallets` holds its wallets.   *)
(***************************************************************************)
\* createUser, line 10: getUserByTelegramId
StartCommand(c) ==
    /\ \E x \in HandlerSlots : ~Busy(mh[x])
    /\ Commit([mh EXCEPT ![FirstFree(mh, HandlerSlots)] =
                  [IdleHandler EXCEPT !.pc = "startUser", !.kind = "start", !.chat = c,
                                      !.user = getUserByTelegramId]],
              userSessions, heap)
    /\ UNCHANGED <<configVars, storeVars, gateway, clock, wh, pollVars, histVars>>

\* getUserWallet(userId) of ensureUserWallet, line 40
WalletOf(userId) == IF userId = TelegramId THEN getUserWallet ELSE NoWallet

\* createUser, lines 11-27: an existing user goes to ensureUserWallet, else the
\* user document is created
StartGotUser(h) ==
    /\ mh[h].pc = "startUser"
    /\ IF mh[h].user # Null
       THEN /\ Commit([mh EXCEPT ![h].pc = "startWallet", ![h].balance = WalletOf(mh[h].user)],
                      userSessions, heap)
            /\ UNCHANGED userDocs
       ELSE /\ userDocs' = userDocs + 1
            /\ Commit([mh EXCEPT ![h].pc = "startCreated", ![h].user = userDocs + 1],
                      userSessions, heap)
    /\ UNCHANGED <<configVars, wallets, transactions, ledger, credits, gateway, clock, wh,
                   pollVars, histVars>>

\* createUser, line 29: ensureUserWallet(user.$id) up to its getUserWallet
StartUserCreated(h) ==
    /\ mh[h].pc = "startCreated"
    /\ Commit([mh EXCEPT ![h].pc = "startWallet", ![h].balance = WalletOf(mh[h].user)],
              userSessions, heap)
    /\ UNCHANGED <<configVars, storeVars, gateway, clock, wh, pollVars, histVars>>

\* ensureUserWallet, lines 41-57: a wallet of balance 0 is created when the read
\* found none; then the welcome is sent
StartGotWallet(h) ==
    /\ mh[h].pc = "startWallet"
    /\ LET r == mh[h]
           creates == r.balance = NoWallet
       IN  /\ wallets' = IF creates /\ r.user = TelegramId THEN Append(wallets, 0) ELSE wallets
           /\ Commit([mh EXCEPT ![h] = Return([@ EXCEPT !.recorded = IF creates THEN 1 ELSE Null],
                                              "welcome", 1)],
                     userSessions, heap)
    /\ UNCHANGED <<configVars, userDocs, transactions, ledger, credits, gateway, clock, wh,
                   pollVars, histVars>>

(***************************************************************************)
(* bot.onText(/\/cancel/), lines 424-442: the entry of the chat is deleted *)
(* and the notice is sent.  The message handler, which receives the same   *)
(* message, returns at line 586 before it touches the Map.                 *)
(***************************************************************************)
CancelCommand(c) ==
    /\ \E x \in HandlerSlots : ~Busy(mh[x])
    /\ executes[c] < MaxExecutes
    /\ Commit([mh EXCEPT ![FirstFree(mh, HandlerSlots)] = Return(IdleHandler, "cancelled", 1)],
              Deleted(c), heap)
    /\ UNCHANGED <<configVars, storeVars, gateway, clock, wh, pollVars, histVars>>

(***************************************************************************)
(* The callback_query handler, lines 444-571.                              *)
(***************************************************************************)
CbStart(c, data) ==
    /\ \E x \in HandlerSlots : ~Busy(mh[x])
    /\ executes[c] < MaxExecutes
    /\ LET h == FirstFree(mh, HandlerSlots)
           fresh == userSessions[c] = Null
           o == IF fresh THEN FreeObject(userSessions, mh) ELSE userSessions[c]
       IN  IF data = "cancel_operation"
           THEN Commit([mh EXCEPT ![h] = Return(IdleHandler, "cancelled", 1)],
                       Deleted(c), heap)
           ELSE CommitAt([mh EXCEPT ![h] = [IdleHandler EXCEPT !.pc = "cbAnswer",
                                                !.kind = "callback", !.chat = c, !.sess = o,
                                                !.text = data]],
                         [userSessions EXCEPT ![c] = o],
                         [heap EXCEPT ![o] = IF fresh THEN NewSession ELSE @],
                         [inactivity EXCEPT ![c] = 0])
    /\ UNCHANGED <<configVars, storeVars, gateway, clock, wh, pollVars, histVars>>

\* the selection a callback makes on the session object (lines 469-562)
Select(s, data) ==
    LET code == CallbackCode(data)
    IN  CASE CallbackPrefix(data) = "airtime_network_" /\ code \in SUPPORTED_NETWORKS ->
                [s EXCEPT !.airtimeNetwork = code, !.stage = "awaiting_airtime_amount"]
          [] CallbackPrefix(data) = "data_network_" /\ code \in SUPPORTED_NETWORKS ->
                [s EXCEPT !.dataNetwork = code, !.stage = "awaiting_data_phone"]
          [] CallbackPrefix(data) = "electricity_provider_"
                /\ code \in SUPPORTED_ELECTRICITY_PROVIDERS ->
                [s EXCEPT !.electricityProvider = code, !.stage = "awaiting_meter_number"]
          [] CallbackPrefix(data) = "tv_provider_" /\ code \in SUPPORTED_TV_PROVIDERS ->
                [s EXCEPT !.tvProvider = code, !.stage = "awaiting_card_number"]
          [] OTHER -> s

\* a callback with a known prefix and an unknown code is answered "Invalid ... selected"
Unrecognized(data) ==
    /\ CallbackPrefix(data) # ""
    /\ CallbackCode(data) \notin SUPPORTED_NETWORKS \cup SUPPORTED_ELECTRICITY_PROVIDERS
                                  \cup SUPPORTED_TV_PROVIDERS

\* answerCallbackQuery returned; the selection is applied
CbAnswered(h) ==
    /\ mh[h].pc = "cbAnswer"
    /\ LET r == mh[h]
       IN  Commit([mh EXCEPT ![h] = IF Unrecognized(r.text) THEN Return(@, "invalid", 1)
                                    ELSE Return(@, "selected", 0)],
                  userSessions, Put(heap, r.sess, Select(heap[r.sess], r.text)))
    /\ UNCHANGED <<configVars, storeVars, gateway, clock, wh, pollVars, histVars>>

\* answerCallbackQuery threw: the catch of the callback_query handler, lines 563-569,
\* sends its message; the Map and the session object are not touched
CbCaught(h) ==
    /\ mh[h].pc = "cbAnswer"
    /\ Commit([mh EXCEPT ![h] = Return(@, "error", 1)], userSessions, heap)
    /\ UNCHANGED <<configVars, storeVars, gateway, clock, wh, pollVars, histVars>>

(***************************************************************************)
(* The payment gateway (PaystackService.verifyPayment) and the payer.      *)
(***************************************************************************)
\* what verifyPayment returns as data.status, or "throw" for its error
VerifyOutcomes(reference) == {gateway[reference].status, "throw"}

\* the payer, who holds the link, completes or abandons the payment
Settle(reference, status) ==
    /\ reference \in DOMAIN gateway
    /\ gateway[reference].link
    /\ gateway[reference].status = "pending"
    /\ status \in {"success", "failed"}
    /\ gateway' = [gateway EXCEPT ![reference].status = status]
    /\ UNCHANGED <<configVars, storeVars, clock, sessionVars, mh, wh, pollVars, histVars>>

\* data.amount of a webhook payload, in kobo, and line 68
Kobo(amount) == amount * 100
FromKoboMut(kobo) == kobo
FromKobo(kobo) == kobo \div 100

(***************************************************************************)
(* The webhook handler, lines 41-132.  A run's record holds its locals and *)
(* counts, as history, the credits, transaction writes and notifications   *)
(* it has issued; `res` is the status of its response.                     *)
(***************************************************************************)
IdleWebhook ==
    [pc |-> "idle", reference |-> NoRef, amount |-> 0, user |-> Null, existing |-> Null,
     seen |-> "", verification |-> "", balance |-> NoWallet,
     credited |-> 0, wrote |-> 0, notified |-> 0, res |-> 0]

\* of a finished run the history and the response are kept
Respond(r, status) ==
    [IdleWebhook EXCEPT !.pc = "done", !.seen = r.seen, !.verification = r.verification,
                        !.credited = r.credited, !.wrote = r.wrote, !.notified = r.notified,
                        !.res = status]

\* the runs after a step of the handler; of the finished runs only the latest is remembered
Reply(runs) == wh' = Pack(Latest(wh, runs, IdleWebhook), IdleWebhook)

\* lines 54 and 63: the guards ahead of any processing
Rejects(signed) == ~signed
Ignores(event) == event # "charge.success"

\* a request arrives: signature, event, then getUserByTelegramId
WebhookStart(reference, signed, event) ==
    /\ reference \in DOMAIN gateway
    /\ gateway[reference].link
    /\ \E x \in WebhookSlots : ~Busy(wh[x])
    /\ LET w == FirstFree(wh, WebhookSlots)
           run == [IdleWebhook EXCEPT !.reference = reference]
       IN  Reply([wh EXCEPT ![w] =
                     IF Rejects(signed) THEN Respond(run, 401)
                     ELSE IF Ignores(event) THEN Respond(run, 200)
                     ELSE [run EXCEPT !.pc = "getUser",
                                      !.amount = FromKobo(Kobo(gateway[reference].amount)),
                                      !.user = IF UserIdOf(reference) = toString(TelegramId)
                                               THEN getUserByTelegramId ELSE Null]])
    /\ UNCHANGED <<configVars, storeVars, gateway, clock, sessionVars, mh, pollVars, histVars>>

\* a request arrives whose req.body is not a Buffer: the global bodyParser.json of line 21
\* runs before the route's express.raw and has parsed the body already, hmac.update of
\* line 51 throws on the parsed object, and the catch of line 127 answers 500, whatever
\* the signature header and the event
WebhookHashThrows(reference, signed, event) ==
    /\ reference \in DOMAIN gateway
    /\ gateway[reference].link
    /\ \E x \in WebhookSlots : ~Busy(wh[x])
    /\ Reply([wh EXCEPT ![FirstFree(wh, WebhookSlots)] =
                 Respond([IdleWebhook EXCEPT !.reference = reference], 500)])
    /\ UNCHANGED <<configVars, storeVars, gateway, clock, sessionVars, mh, pollVars, histVars>>

StatusOf(id) == IF id = Null THEN "" ELSE transactions[id].status

\* the user returned; findTransactionByReference
WebhookGotUser(w) ==
    /\ wh[w].pc = "getUser"
    /\ LET r == wh[w]
           found == findTransactionByReference(r.reference)
       IN  Reply([wh EXCEPT ![w] =
                     IF r.user = Null THEN Respond(r, 400)
                     ELSE [r EXCEPT !.pc = "findTx", !.existing = found,
                                    !.seen = StatusOf(found)]])
    /\ UNCHANGED <<configVars, storeVars, gateway, clock, sessionVars, mh, pollVars, histVars>>

\* line 84: the idempotence guard
AlreadyProcessedMut(seen) == FALSE
AlreadyProcessed(seen) == seen = "success"

\* the lookup returned; the guard, then verifyPayment
WebhookGotTx(w, verification) ==
    /\ wh[w].pc = "findTx"
    /\ verification \in IF AlreadyProcessed(wh[w].seen) THEN {""}
                         ELSE VerifyOutcomes(wh[w].reference)
    /\ Reply([wh EXCEPT ![w] =
                 IF AlreadyProcessed(@.seen) THEN Respond(@, 200)
                 ELSE [@ EXCEPT !.pc = "verify", !.verification = verification]])
    /\ UNCHANGED <<configVars, storeVars, gateway, clock, sessionVars, mh, pollVars, histVars>>

\* lines 91 and 148: the verification a credit requires
VerifiedMut(verification) == verification # "throw"
Verified(verification) == verification = "success"

\* verifyPayment returned or threw; with success, updateWalletBalance(.., "credit")
\* up to its getUserWallet
WebhookVerified(w) ==
    /\ wh[w].pc = "verify"
    /\ Reply([wh EXCEPT ![w] =
                 IF @.verification = "throw" THEN Respond(@, 500)
                 ELSE IF ~Verified(@.verification) THEN Respond(@, 400)
                 ELSE IF ~LedgerAccepts(@.amount) THEN Respond(@, 500)
                 ELSE [@ EXCEPT !.pc = "walletRead", !.balance = getUserWallet]])
    /\ UNCHANGED <<configVars, storeVars, gateway, clock, sessionVars, mh, pollVars, histVars>>

\* updateWalletBalance read the wallet; the new balance is checked and written
WebhookWalletRead(w) ==
    /\ wh[w].pc = "walletRead"
    /\ LET r == wh[w]
           newBalance == NewBalance(r.balance, r.amount, "credit")
       IN  IF r.balance = NoWallet \/ Insufficient(newBalance)
           THEN /\ Reply([wh EXCEPT ![w] = Respond(@, 500)])
                /\ UNCHANGED <<wallets, ledger, credits>>
           ELSE /\ wallets' = WriteBalance(newBalance)
                /\ ledger' = Applied(r.amount, "credit")
                /\ credits' = [credits EXCEPT ![r.reference] = @ + 1]
                /\ wh' = [wh EXCEPT ![w].pc = "walletWrite", ![w].credited = @ + 1]
    /\ UNCHANGED <<configVars, userDocs, transactions, gateway, clock, sessionVars, mh,
                   pollVars, histVars>>

\* lines 100-117 and 174-191: update the record found, or create one
SaveSuccess(existing, amount, reference) ==
    IF existing # Null THEN updateTransaction(existing, "success")
    ELSE createTransaction("credit", amount, reference, "success")

\* the credit is written; the transaction is saved
WebhookCredited(w) ==
    /\ wh[w].pc = "walletWrite"
    /\ transactions' = SaveSuccess(wh[w].existing, wh[w].amount, wh[w].reference)
    /\ wh' = [wh EXCEPT ![w].pc = "txWrite", ![w].wrote = @ + 1]
    /\ UNCHANGED <<configVars, userDocs, wallets, ledger, credits, gateway, clock,
                   sessionVars, mh, pollVars, histVars>>

\* the transaction is saved; the user is notified
WebhookTxSaved(w) ==
    /\ wh[w].pc = "txWrite"
    /\ wh' = [wh EXCEPT ![w].pc = "notify", ![w].notified = @ + 1]
    /\ UNCHANGED <<configVars, storeVars, gateway, clock, sessionVars, mh, pollVars, histVars>>

WebhookNotified(w) ==
    /\ wh[w].pc = "notify"
    /\ Reply([wh EXCEPT ![w] = Respond(@, 200)])
    /\ UNCHANGED <<configVars, storeVars, gateway, clock, sessionVars, mh, pollVars, histVars>>

(***************************************************************************)
(* pollPaymentStatus, lines 136-238.  A loop holds the closure's           *)
(* variables: whether the interval is still set, `attempts`, and the       *)
(* chatId and amount it was started with.  A tick is one run of the        *)
(* interval callback.                                                      *)
(***************************************************************************)
IdleTick ==
    [pc |-> "idle", reference |-> NoRef, verification |-> "", user |-> Null,
     existing |-> Null, seen |-> "", balance |-> NoWallet,
     credited |-> 0, wrote |-> 0, notified |-> 0, failed |-> 0, timedOut |-> 0]

\* of a finished run the history is kept
Finished(r) ==
    [IdleTick EXCEPT !.pc = "done", !.seen = r.seen, !.verification = r.verification,
                     !.credited = r.credited, !.wrote = r.wrote, !.notified = r.notified,
                     !.failed = r.failed, !.timedOut = r.timedOut]

\* clearInterval(intervalId)
Cleared(reference) == [loops EXCEPT ![reference].active = FALSE]

\* the callbacks of the interval that are in progress
Awaited == {x \in TickSlots : Busy(ticks[x])}

\* the interval fires: verifyPayment
TickStart(reference, verification) ==
    /\ reference \in DOMAIN loops
    /\ loops[reference].active
    /\ Cardinality(Awaited) < MaxTicks
    /\ verification \in VerifyOutcomes(reference)
    /\ ticks' = [ticks EXCEPT ![FirstFree(ticks, TickSlots)] =
                    [IdleTick EXCEPT !.pc = "verify", !.reference = reference,
                                     !.verification = verification]]
    /\ UNCHANGED <<configVars, storeVars, gateway, clock, sessionVars, mh, wh, loops, histVars>>

\* the interval fires again while its callbacks are still awaited: setInterval does
\* not wait for the promise of an async callback
TickOverlaps(reference, verification) ==
    /\ reference \in DOMAIN loops
    /\ loops[reference].active
    /\ Cardinality(Awaited) = MaxTicks
    /\ \A x \in Awaited : ticks[x].reference = reference
    /\ verification \in VerifyOutcomes(reference)
    /\ ticks' = [ticks EXCEPT ![FirstFree(ticks, TickSlots)] =
                    [IdleTick EXCEPT !.pc = "verify", !.reference = reference,
                                     !.verification = verification]]
    /\ UNCHANGED <<configVars, storeVars, gateway, clock, sessionVars, mh, wh, loops, histVars>>

\* lines 225-236: attempts++, and on exhaustion clearInterval and the timeout notice
After(t, lps) ==
    LET reference == ticks[t].reference
        attempts == lps[reference].attempts + 1
    IN  IF attempts >= maxAttempts
        THEN /\ loops' = [lps EXCEPT ![reference].attempts = attempts,
                                     ![reference].active = FALSE]
             /\ ticks' = [ticks EXCEPT ![t].pc = "timeoutNotify", ![t].timedOut = @ + 1]
        ELSE /\ loops' = [lps EXCEPT ![reference].attempts = attempts]
             /\ ticks' = [ticks EXCEPT ![t] = Finished(@)]

\* verifyPayment returned or threw
TickVerified(t) ==
    /\ ticks[t].pc = "verify"
    /\ LET r == ticks[t]
       IN  IF r.verification = "throw"
           THEN After(t, loops)                       \* the catch of line 214
           ELSE IF Verified(r.verification)
           THEN /\ loops' = Cleared(r.reference)
                /\ ticks' = [ticks EXCEPT ![t].pc = "getUser", ![t].user = getUserByTelegramId]
           ELSE IF r.verification = "failed"
           THEN /\ loops' = Cleared(r.reference)
                /\ ticks' = [ticks EXCEPT ![t].pc = "failNotify", ![t].failed = @ + 1]
           ELSE After(t, loops)
    /\ UNCHANGED <<configVars, storeVars, gateway, clock, sessionVars, mh, wh, histVars>>

\* the user returned; user.$id, then getUserTransactions and the search of the page
TickGotUser(t) ==
    /\ ticks[t].pc = "getUser"
    /\ LET r == ticks[t]
           found == FindInPage(getUserTransactions(TxPage), r.reference)
       IN  IF r.user = Null
           THEN After(t, loops)
           ELSE /\ ticks' = [ticks EXCEPT ![t].pc = "listTx", ![t].existing = found,
                                          ![t].seen = StatusOf(found)]
                /\ UNCHANGED loops
    /\ UNCHANGED <<configVars, storeVars, gateway, clock, sessionVars, mh, wh, histVars>>

\* the page returned; the guard of line 166, then updateWalletBalance up to its read
TickGotPage(t) ==
    /\ ticks[t].pc = "listTx"
    /\ LET r == ticks[t]
           amount == loops[r.reference].amount
       IN  IF AlreadyProcessed(r.seen)
           THEN /\ ticks' = [ticks EXCEPT ![t] = Finished(@)]   \* return, line 168
                /\ UNCHANGED loops
           ELSE IF ~LedgerAccepts(amount)
           THEN After(t, loops)
           ELSE /\ ticks' = [ticks EXCEPT ![t].pc = "walletRead", ![t].balance = getUserWallet]
                /\ UNCHANGED loops
    /\ UNCHANGED <<configVars, storeVars, gateway, clock, sessionVars, mh, wh, histVars>>

TickWalletRead(t) ==
    /\ ticks[t].pc = "walletRead"
    /\ LET r == ticks[t]
           amount == loops[r.reference].amount
           newBalance == NewBalance(r.balance, amount, "credit")
       IN  IF r.balance = NoWallet \/ Insufficient(newBalance)
           THEN /\ After(t, loops)
                /\ UNCHANGED <<wallets, ledger, credits>>
           ELSE /\ wallets' = WriteBalance(newBalance)
                /\ ledger' = Applied(amount, "credit")
                /\ credits' = [credits EXCEPT ![r.reference] = @ + 1]
                /\ ticks' = [ticks EXCEPT ![t].pc = "walletWrite", ![t].credited = @ + 1]
                /\ UNCHANGED loops
    /\ UNCHANGED <<configVars, userDocs, transactions, gateway, clock, sessionVars, mh, wh,
                   histVars>>

TickCredited(t) ==
    /\ ticks[t].pc = "walletWrite"
    /\ transactions' = SaveSuccess(ticks[t].existing, loops[ticks[t].reference].amount,
                                   ticks[t].reference)
    /\ ticks' = [ticks EXCEPT ![t].pc = "txWrite", ![t].wrote = @ + 1]
    /\ UNCHANGED <<configVars, userDocs, wallets, ledger, credits, gateway, clock,
                   sessionVars, mh, wh, loops, histVars>>

TickTxSaved(t) ==
    /\ ticks[t].pc = "txWrite"
    /\ ticks' = [ticks EXCEPT ![t].pc = "notify", ![t].notified = @ + 1]
    /\ UNCHANGED <<configVars, storeVars, gateway, clock, sessionVars, mh, wh, loops, histVars>>

\* a notice was sent (funded, failed or timed out): userSessions.delete(chatId);
\* after the first two the callback runs on to lines 225-236
TickNotified(t) ==
    /\ ticks[t].pc \in {"notify", "failNotify", "timeoutNotify"}
    /\ Commit(mh, Deleted(loops[ticks[t].reference].chat), heap)
    /\ IF ticks[t].pc = "timeoutNotify"
       THEN /\ ticks' = [ticks EXCEPT ![t] = Finished(@)]
            /\ UNCHANGED loops
       ELSE After(t, loops)
    /\ UNCHANGED <<configVars, storeVars, gateway, clock, wh, histVars>>

(***************************************************************************)
(* The system.  A run's user follows one purchase flow (userFlow) or none; *)
(* the texts and selections delivered are those of that flow.              *)
(***************************************************************************)
Flows == {"airtime", "data", "electricity", "tv"}

TextsOf(flow) ==
    CASE flow = "airtime" -> {"Buy Airtime", "20", "70", "2000", "(020)1234567", "yes", "cancel"}
      [] flow = "data" -> {"Buy Data", "(020)1234567", "2000", "M1024", "m2024", "yes", "cancel"}
      [] flow = "electricity" -> {"Pay Electricity", "0201234567", "70", "2000", "yes", "cancel"}
      [] flow = "tv" -> {"Pay TV", "0201234567", "2000", "dstv-padi", "yes", "cancel"}
      [] OTHER -> {}

CallbacksOf(flow) ==
    CASE flow = "airtime" -> {"airtime_network_mtn", "airtime_network_bogus", "cancel_operation"}
      [] flow = "data" -> {"data_network_mtn", "cancel_operation"}
      [] flow = "electricity" -> {"electricity_provider_eko-electric", "cancel_operation"}
      [] flow = "tv" -> {"tv_provider_dstv", "cancel_operation"}
      [] OTHER -> {}

\* the state after the module is loaded, whatever the configuration and the store hold
InitState ==
    /\ userDocs = 1
    /\ ledger = IF wallets = <<>> THEN 0 ELSE wallets[1]
    /\ credits = [reference \in FundRefs |-> 0]
    /\ transactions = <<>>
    /\ gateway = <<>>
    /\ clock = 0
    /\ userSessions = [c \in Chats |-> Null]
    /\ heap = [o \in Objects |-> NewSession]
    /\ inactivity = [c \in Chats |-> 0]
    /\ mh = [h \in HandlerSlots |-> IdleHandler]
    /\ wh = [w \in WebhookSlots |-> IdleWebhook]
    /\ loops = <<>>
    /\ ticks = [t \in TickSlots |-> IdleTick]
    /\ fired = [c \in Chats |-> 0]
    /\ executes = [c \in Chats |-> 0]
    /\ funds = 0

VerifyResults == {"", "pending", "success", "failed", "throw"}

ExecStep(h) ==
    \/ ExecGotUser(h)
    \/ ExecGotWallet(h)
    \/ ExecDebitRead(h)
    \/ ExecDebited(h)
    \/ \E result \in {Delivered, PendingDelivery, Rejected, Thrown} : ExecProviderReturned(h, result)
    \/ ExecRecorded(h)

LookupStep(h) ==
    \/ \E response \in VariationOutcomes(mh[h].service) : VariationsReturned(h, response)
    \/ \E code \in {"000", "011", "throw"} : MeterVerified(h, code)

StartStep(h) ==
    \/ StartGotUser(h)
    \/ StartUserCreated(h)
    \/ StartGotWallet(h)

QueryStep(h) ==
    \/ QueryGotUser(h)
    \/ QueryReturned(h)

FundStep(h) ==
    \/ \E outcome \in InitOutcomes : FundGotUser(h, outcome)
    \/ FundInitialised(h)
    \/ FundRecorded(h)
    \/ FundLinkSent(h)

WebhookStep(w) ==
    \/ WebhookGotUser(w)
    \/ \E verification \in VerifyResults : WebhookGotTx(w, verification)
    \/ WebhookVerified(w)
    \/ WebhookWalletRead(w)
    \/ WebhookCredited(w)
    \/ WebhookTxSaved(w)
    \/ WebhookNotified(w)

TickStep(t) ==
    \/ TickVerified(t)
    \/ TickGotUser(t)
    \/ TickGotPage(t)
    \/ TickWalletRead(t)
    \/ TickCredited(t)
    \/ TickTxSaved(t)
    \/ TickNotified(t)

(***************************************************************************)
(* Funding and reconciliation: /fund commands, the payer, webhook          *)
(* deliveries and the polling loop.                                        *)
(***************************************************************************)
InitRecon ==
    /\ vtpassTest = FALSE
    /\ paystackTest \in BOOLEAN
    /\ wallets \in {<<>>, <<0>>}
    /\ userFlow = ""
    /\ InitState

NextRecon ==
    \/ \E c \in Private, text \in FundTexts : MsgStart(c, text)
    \/ \E h \in HandlerSlots : FundStep(h)
    \/ \E reference \in FundRefs, status \in {"success", "failed"} : Settle(reference, status)
    \/ \E reference \in FundRefs, signed \in BOOLEAN, event \in {"charge.success", "charge.failed"} :
          WebhookStart(reference, signed, event)
    \/ \E reference \in FundRefs, signed \in BOOLEAN, event \in {"charge.success", "charge.failed"} :
          WebhookHashThrows(reference, signed, event)
    \/ \E w \in WebhookSlots : WebhookStep(w)
    \/ \E reference \in FundRefs, verification \in VerifyResults : TickStart(reference, verification)
    \/ \E t \in TickSlots : TickStep(t)

SpecRecon == InitRecon /\ [][NextRecon]_vars

(***************************************************************************)
(* The session machine: the messages and selections of one purchase flow,  *)
(* with the executes they start.                                           *)
(***************************************************************************)
InitSession ==
    /\ vtpassTest = FALSE
    /\ paystackTest = FALSE
    /\ wallets \in {<<>>, <<3000>>}
    /\ userFlow \in Flows
    /\ InitState

NextSession ==
    \/ \E c \in Private, text \in TextsOf(userFlow) : MsgStart(c, text)
    \/ \E c \in Private, data \in CallbacksOf(userFlow) : CbStart(c, data)
    \/ \E c \in Private : CancelCommand(c)
    \/ \E h \in HandlerSlots : CbAnswered(h)
    \/ \E h \in HandlerSlots : LookupStep(h)
    \/ \E h \in HandlerSlots : ExecStep(h)

SpecSession == InitSession /\ [][NextSession]_vars

(***************************************************************************)
(* The ledger under credits and debits: airtime purchases, /fund commands, *)
(* the payer and signed webhook deliveries handled one at a time, so that  *)
(* executes overlap each other and a reconciliation credit.                *)
(***************************************************************************)
LedgerTexts == {"Buy Airtime", "2000", "(020)1234567", "yes", "/fund 500"}

InitLedger ==
    /\ vtpassTest = FALSE
    /\ paystackTest = FALSE
    /\ wallets = <<3000>>
    /\ userFlow = "airtime"
    /\ InitState

NextLedger ==
    \/ \E c \in Private, text \in LedgerTexts : MsgStart(c, text)
    \/ \E c \in Private : CbStart(c, "airtime_network_mtn")
    \/ \E h \in HandlerSlots : CbAnswered(h)
    \/ \E h \in HandlerSlots : ExecStep(h)
    \/ \E h \in HandlerSlots : FundStep(h)
    \/ \E reference \in FundRefs : Settle(reference, "success")
    \/ \E reference \in FundRefs :
          (\A w \in WebhookSlots : ~Busy(wh[w])) /\ WebhookStart(reference, TRUE, "charge.success")
    \/ \E w \in WebhookSlots : WebhookStep(w)

SpecLedger == InitLedger /\ [][NextLedger]_vars

(***************************************************************************)
(* The polling loop beside purchases: in the billing provider's test mode  *)
(* /fund starts the loop, and airtime purchases add transactions of the    *)
(* same user while the payment is outstanding.                             *)
(***************************************************************************)
InitPoll ==
    /\ vtpassTest = TRUE
    /\ paystackTest = FALSE
    /\ wallets = <<3000>>
    /\ userFlow = "airtime"
    /\ InitState

NextPoll ==
    \/ \E c \in Private, text \in LedgerTexts : MsgStart(c, text)
    \/ \E c \in Private : CbStart(c, "airtime_network_mtn")
    \/ \E h \in HandlerSlots : CbAnswered(h)
    \/ \E h \in HandlerSlots : ExecStep(h)
    \/ \E h \in HandlerSlots : FundStep(h)
    \/ \E reference \in FundRefs : Settle(reference, "success")
    \/ \E reference \in FundRefs : TickStart(reference, "success")
    \/ \E t \in TickSlots : TickStep(t)

SpecPoll == InitPoll /\ [][NextPoll]_vars

(***************************************************************************)
(* Two chats: the user's chat runs the airtime flow and its executes while *)
(* the chat of another user collects the fields of a purchase.             *)
(***************************************************************************)
OwnTexts == {"Buy Airtime", "2000", "(020)1234567", "yes", "cancel"}
OtherTexts == {"Buy Airtime", "70", "(020)1234567", "cancel"}
Selections == {"airtime_network_mtn", "cancel_operation"}

InitChats ==
    /\ vtpassTest = TRUE
    /\ paystackTest = FALSE
    /\ wallets = <<3000>>
    /\ userFlow = "airtime"
    /\ InitState

NextChats ==
    \/ \E c \in Private, text \in OwnTexts : MsgStart(c, text)
    \/ \E c \in Chats \ Private, text \in OtherTexts : MsgStart(c, text)
    \/ \E c \in Chats, data \in Selections : CbStart(c, data)
    \/ \E h \in HandlerSlots : CbAnswered(h)
    \/ \E h \in HandlerSlots : ExecStep(h)

SpecChats == InitChats /\ [][NextChats]_vars

(***************************************************************************)
(* The confirm stages under every kind of text: the texts of the flow, a   *)
(* 'yes' in capitals, a menu button of another branch and a /fund command. *)
(* The runs the texts start are left suspended on their first call.        *)
(***************************************************************************)
ConfirmTexts == {"YES", "Check Balance", "/fund 500"}

InitConfirm ==
    /\ vtpassTest = TRUE
    /\ paystackTest = FALSE
    /\ wallets = <<3000>>
    /\ userFlow \in Flows
    /\ InitState

NextConfirm ==
    \/ \E c \in Private, text \in TextsOf(userFlow) \cup ConfirmTexts : MsgStart(c, text)
    \/ \E c \in Private, data \in CallbacksOf(userFlow) : CbStart(c, data)
    \/ \E h \in HandlerSlots : CbAnswered(h)
    \/ \E h \in HandlerSlots : LookupStep(h)

SpecConfirm == InitConfirm /\ [][NextConfirm]_vars

(***************************************************************************)
(* The polling loop alone: one /fund in test mode, the payer, and the       *)
(* callbacks of the interval, which may overlap.                           *)
(***************************************************************************)
InitLoop ==
    /\ vtpassTest = FALSE
    /\ paystackTest = TRUE
    /\ wallets \in {<<>>, <<0>>}
    /\ userFlow = ""
    /\ InitState

NextLoop ==
    \/ \E c \in Private : MsgStart(c, "/fund 500")
    \/ \E h \in HandlerSlots : FundStep(h)
    \/ \E reference \in FundRefs, status \in {"success", "failed"} : Settle(reference, status)
    \/ \E reference \in FundRefs, verification \in VerifyResults : TickStart(reference, verification)
    \/ \E reference \in FundRefs, verification \in VerifyResults :
          TickOverlaps(reference, verification)
    \/ \E t \in TickSlots : TickStep(t)

SpecLoop == InitLoop /\ [][NextLoop]_vars

(***************************************************************************)
(* Registration: /start commands of a user who has no wallet yet, with or  *)
(* without a user document, and one /fund with its polling loop.           *)
(***************************************************************************)
InitStart ==
    /\ vtpassTest = FALSE
    /\ paystackTest = TRUE
    /\ userFlow = ""
    /\ userDocs \in {0, 1}
    /\ wallets = <<>>
    /\ ledger = 0
    /\ credits = [reference \in FundRefs |-> 0]
    /\ transactions = <<>>
    /\ gateway = <<>>
    /\ clock = 0
    /\ userSessions = [c \in Chats |-> Null]
    /\ heap = [o \in Objects |-> NewSession]
    /\ inactivity = [c \in Chats |-> 0]
    /\ mh = [h \in HandlerSlots |-> IdleHandler]
    /\ wh = [w \in WebhookSlots |-> IdleWebhook]
    /\ loops = <<>>
    /\ ticks = [t \in TickSlots |-> IdleTick]
    /\ fired = [c \in Chats |-> 0]
    /\ executes = [c \in Chats |-> 0]
    /\ funds = 0

NextStart ==
    \/ \E c \in Private : StartCommand(c)
    \/ \E h \in HandlerSlots : StartStep(h)
    \/ \E c \in Private : MsgStart(c, "/fund 500")
    \/ \E h \in HandlerSlots : FundStep(h)
    \/ \E reference \in FundRefs : Settle(reference, "success")
    \/ \E reference \in FundRefs : TickStart(reference, "success")
    \/ \E t \in TickSlots : TickStep(t)

SpecStart == InitStart /\ [][NextStart]_vars

(***************************************************************************)
(* The ledger alone: updateWalletBalance called with any amount.           *)
(***************************************************************************)
InitWallet ==
    /\ vtpassTest = FALSE
    /\ paystackTest = FALSE
    /\ wallets \in {<<>>, <<0>>, <<500>>}
    /\ userFlow = ""
    /\ InitState

NextWallet ==
    \/ \E amount \in Amounts, type \in {"credit", "debit"} : updateWalletBalance(amount, type)
    \/ \E h \in HandlerSlots : WalletUpdated(h)

SpecWallet == InitWallet /\ [][NextWallet]_vars

(***************************************************************************)
(* Purchases with every answer of the provider: the user sends the texts   *)
(* of the flow that pass validation.                                       *)
(***************************************************************************)
PlainTexts(flow) == TextsOf(flow) \ {"20", "70", "m2024", "cancel"}

InitVerdict ==
    /\ vtpassTest = FALSE
    /\ paystackTest = FALSE
    /\ wallets = <<3000>>
    /\ userFlow \in Flows
    /\ InitState

NextVerdict ==
    \/ \E c \in Private, text \in PlainTexts(userFlow) : MsgStart(c, text)
    \/ \E c \in Private, data \in CallbacksOf(userFlow) \ {"cancel_operation"} : CbStart(c, data)
    \/ \E h \in HandlerSlots : CbAnswered(h)
    \/ \E h \in HandlerSlots : LookupStep(h)
    \/ \E h \in HandlerSlots : ExecGotUser(h)
    \/ \E h \in HandlerSlots : ExecGotWallet(h)
    \/ \E h \in HandlerSlots : ExecDebitRead(h)
    \/ \E h \in HandlerSlots : ExecDebited(h)
    \/ \E h \in HandlerSlots, result \in PayOutcomes : ExecProviderReturned(h, result)
    \/ \E h \in HandlerSlots : ExecRecorded(h)

SpecVerdict == InitVerdict /\ [][NextVerdict]_vars

(***************************************************************************)
(* References as text: one is generated for a user id and a reading of the *)
(* clock, and the webhook takes the user id out of the one it is given.    *)
(* The ids are those the program embeds: user.telegramId, the decimal      *)
(* digits of a Telegram user id, and user.$id, which createUser draws from *)
(* ID.unique(), hexadecimal digits.                                        *)
(***************************************************************************)
IdChars == {"4", "a", "f"}
Ids == UNION {[1..n -> IdChars] : n \in 1..MaxIdLen}
Stamps == {toString(ts) : ts \in {9, 10, 1700}}
Prefixes == {"FUND", "AIRTIME", "DATA", "ELEC", "TV"}

\* lines 660, 772, 868, 974 and 1007: a handler fills the template
Generates(prefix, id, ts) ==
    /\ mh' = [mh EXCEPT ![1] = [IdleHandler EXCEPT !.pc = "done", !.kind = prefix,
                                                   !.user = id,
                                                   !.reference = Template(Chars(prefix), id, ts),
                                                   !.outcome = "generated"]]
    /\ wh' = [wh EXCEPT ![1] = IdleWebhook]
    /\ UNCHANGED <<configVars, storeVars, gateway, clock, sessionVars, pollVars, histVars>>

\* lines 67-69: the webhook reads the user id from the reference of the payload
Parses ==
    /\ mh[1].outcome = "generated"
    /\ wh[1].pc = "idle"
    /\ wh' = [wh EXCEPT ![1] = [IdleWebhook EXCEPT !.pc = "getUser",
                                                   !.reference = mh[1].reference,
                                                   !.user = Second(split(mh[1].reference, "_"))]]
    /\ UNCHANGED <<configVars, storeVars, gateway, clock, sessionVars, mh, pollVars, histVars>>

InitRef ==
    /\ vtpassTest = FALSE
    /\ paystackTest = FALSE
    /\ wallets = <<>>
    /\ userFlow = ""
    /\ InitState

NextRef ==
    \/ \E prefix \in Prefixes, id \in Ids, ts \in Stamps : Generates(prefix, id, ts)
    \/ Parses

SpecRef == InitRef /\ [][NextRef]_vars

(***************************************************************************)
(* The periodic session cleanup, lines 29-37, beside the airtime flow.     *)
(* Time is counted in periods of the cleanup (a minute).  A call to the    *)
(* billing provider is cut off after 30 s (vtpass.js:38) and returns       *)
(* within the period; the calls to the store and to Telegram carry no      *)
(* timeout, so a run may stay suspended on one of them for any time.       *)
(***************************************************************************)
TimedCalls == {"execProvider", "dataVariations", "tvVariations", "meterVerify"}

Expired(since) == since > SESSION_TIMEOUT

\* a period passes
Elapse ==
    /\ \A h \in HandlerSlots : mh[h].pc \notin TimedCalls
    /\ \E c \in Chats : userSessions[c] # Null /\ ~Expired(inactivity[c])
    /\ inactivity' = [c \in Chats |->
                         IF userSessions[c] = Null \/ Expired(inactivity[c])
                         THEN inactivity[c] ELSE inactivity[c] + 1]
    /\ UNCHANGED <<configVars, storeVars, gateway, clock, userSessions, heap, mh, wh,
                   pollVars, histVars>>

\* the callback of the cleanup interval
Sweep ==
    /\ Commit(mh, [c \in Chats |-> IF userSessions[c] # Null /\ Expired(inactivity[c])
                                   THEN Null ELSE userSessions[c]], heap)
    /\ UNCHANGED <<configVars, storeVars, gateway, clock, wh, pollVars, histVars>>

InitSweep ==
    /\ vtpassTest = TRUE
    /\ paystackTest = FALSE
    /\ wallets = <<3000>>
    /\ userFlow = "airtime"
    /\ InitState

NextSweep ==
    \/ \E c \in Private, text \in PlainTexts(userFlow) : MsgStart(c, text)
    \/ \E c \in Private : CbStart(c, "airtime_network_mtn")
    \/ \E h \in HandlerSlots : CbAnswered(h)
    \/ \E h \in HandlerSlots : ExecStep(h)
    \/ Elapse
    \/ Sweep

SpecSweep == InitSweep /\ [][NextSweep]_vars

(***************************************************************************)
(* Errors in the handlers: the airtime flow against the live provider,     *)
(* whose call may throw, with callbacks whose answer may throw.            *)
(***************************************************************************)
InitCatch ==
    /\ vtpassTest = FALSE
    /\ paystackTest = FALSE
    /\ wallets = <<3000>>
    /\ userFlow = "airtime"
    /\ InitState

NextCatch ==
    \/ \E c \in Private, text \in PlainTexts(userFlow) : MsgStart(c, text)
    \/ \E c \in Private : CbStart(c, "airtime_network_mtn")
    \/ \E h \in HandlerSlots : CbAnswered(h)
    \/ \E h \in HandlerSlots : CbCaught(h)
    \/ \E h \in HandlerSlots : ExecStep(h)

SpecCatch == InitCatch /\ [][NextCatch]_vars

(***************************************************************************)
(* The payment gateway's client alone: calls of initializePayment and of   *)
(* verifyPayment, which may overlap, against every answer of the gateway.  *)
(***************************************************************************)
InitGateway ==
    /\ vtpassTest = FALSE
    /\ paystackTest = FALSE
    /\ wallets = <<>>
    /\ userFlow = ""
    /\ InitState

NextGateway ==
    \/ \E email \in Emails, amount \in {0, 100, 500}, reference \in FundRefs \cup {NoRef} :
          initializePayment(email, amount, reference)
    \/ \E h \in HandlerSlots, status \in Responses : Posted(h, status)
    \/ \E reference \in FundRefs \cup {NoRef} : verifyPayment(reference)
    \/ \E h \in HandlerSlots, status \in Responses : Got(h, status)

SpecGateway == InitGateway /\ [][NextGateway]_vars

(***************************************************************************)
(* The purchase flows in the billing provider's test mode: every lookup    *)
(* and every purchase is answered by the mock of VTPassService.            *)
(***************************************************************************)
InitMock ==
    /\ vtpassTest = TRUE
    /\ paystackTest = FALSE
    /\ wallets = <<3000>>
    /\ userFlow \in Flows
    /\ InitState

NextMock ==
    \/ \E c \in Private, text \in TextsOf(userFlow) : MsgStart(c, text)
    \/ \E c \in Private, data \in CallbacksOf(userFlow) : CbStart(c, data)
    \/ \E c \in Private : CancelCommand(c)
    \/ \E h \in HandlerSlots : CbAnswered(h)
    \/ \E h \in HandlerSlots : LookupStep(h)
    \/ \E h \in HandlerSlots : ExecStep(h)

SpecMock == InitMock /\ [][NextMock]_vars

(***************************************************************************)
(* Properties of the reconciliation engine.                                *)
(***************************************************************************)
\* C1: for any funding reference, however often the webhook is delivered and
\* the polling loop observes success, and however their suspension points
\* interleave, the wallet is credited at most once for that reference.
C1_CreditedOnce == \A reference \in FundRefs : credits[reference] <= 1

\* C2: a webhook run whose lookup found the transaction already `success`
\* credits nothing, writes no transaction and notifies nobody: it returns from
\* the guard with status 200.  And after one /fund 500 on a zero balance, when a
\* delivery has been answered by the guard and the reference was credited once,
\* the balance is exactly 500 and exactly one transaction has status success.
C2_AlreadyProcessedNoOp ==
    /\ \A w \in WebhookSlots :
          wh[w].seen = "success" =>
             /\ wh[w].pc \in {"findTx", "done"}
             /\ wh[w].pc = "done" => wh[w].res = 200
             /\ wh[w].credited = 0 /\ wh[w].wrote = 0 /\ wh[w].notified = 0
    /\ \A w \in WebhookSlots :
          (/\ wh[w].pc = "done" /\ wh[w].seen = "success"
           /\ funds = 1 /\ credits[FundRef(1)] = 1 /\ Len(wallets) > 0)
          => /\ wallets[1] = 500
             /\ Cardinality({i \in 1..Len(transactions) :
                               transactions[i].status = "success"}) = 1

\* a second delivery was answered by the guard after the first had credited 500
C2_Witness ==
    \E w \in WebhookSlots :
        /\ wh[w].pc = "done" /\ wh[w].seen = "success" /\ wh[w].res = 200
        /\ credits[FundRef(1)] = 1
        /\ wallets = <<500>>

\* C10: a webhook run or a polling run has credited the wallet or written the
\* transaction only if the verification it made for its reference reported
\* success, and a reference is credited only once the gateway holds it paid.
C10_CreditOnlyAfterVerification ==
    /\ \A w \in WebhookSlots :
          (wh[w].credited > 0 \/ wh[w].wrote > 0) => wh[w].verification = "success"
    /\ \A t \in TickSlots :
          (ticks[t].credited > 0 \/ ticks[t].wrote > 0) => ticks[t].verification = "success"
    /\ \A reference \in FundRefs :
          credits[reference] > 0 =>
             reference \in DOMAIN gateway /\ gateway[reference].status = "success"

\* a webhook run has credited the wallet after its verification reported success
C10_Witness ==
    \E w \in WebhookSlots :
        /\ wh[w].pc = "walletWrite"
        /\ wh[w].credited = 1 /\ wh[w].verification = "success"
        /\ credits[wh[w].reference] = 1

(***************************************************************************)
(* Properties of the ledger.                                               *)
(***************************************************************************)
\* C3: the stored balance is never negative; a debit is written only if its
\* result is not negative, and an execute whose debit was rejected has called
\* no provider and recorded nothing.
C3_BalanceNeverNegative ==
    /\ Len(wallets) > 0 => wallets[1] >= 0
    /\ \A h \in HandlerSlots :
          /\ mh[h].pc = "execDebitWrite" => mh[h].balance - mh[h].debited >= 0
          /\ (mh[h].outcome = "error" /\ mh[h].checked # Null /\ mh[h].debited = Null)
             => mh[h].sent = Null /\ mh[h].recorded = Null

\* an execute passed the balance check and its debit was then rejected
C3_Witness ==
    \E h \in HandlerSlots :
        /\ mh[h].pc = "done" /\ mh[h].outcome = "error"
        /\ mh[h].checked # Null /\ mh[h].debited = Null
        /\ Len(wallets) > 0 /\ wallets[1] < mh[h].checked

\* C4: no update is lost: the balance is the initial balance plus the credits
\* less the debits the ledger has applied.
C4_NoLostUpdate == Len(wallets) > 0 => wallets[1] = ledger

(***************************************************************************)
(* Properties of the session machine.                                      *)
(***************************************************************************)
\* C5: one confirmation starts at most one execute: since a chat's session
\* last entered a confirm stage, at most one execute was started for it.
C5_OneExecutePerConfirmation == \A c \in Chats : fired[c] <= 1

\* a second 'yes' was handled while the execute of the first was suspended
C5_Witness ==
    /\ fired[1] = 1 /\ executes[1] = 1
    /\ \E h \in HandlerSlots : mh[h].pc \in {"execUser", "execWallet", "execDebitRead",
                                              "execDebitWrite", "execProvider"}
    /\ \E x \in HandlerSlots : /\ mh[x].pc = "done" /\ mh[x].outcome = "unknown"
                               /\ mh[x].text = "yes"

\* C6: the step of an execute that finds the wallet missing or the balance
\* below the cost changes neither the balance nor the transactions, removes the
\* chat's session and ends the run, which has debited nothing, called no
\* provider and recorded nothing.
C6_InsufficientAborts ==
    [][\A h \in HandlerSlots :
          (/\ ExecGotWallet(h)
           /\ \/ mh[h].balance = NoWallet
              \/ mh[h].balance < CostOf(mh[h].flow, heap[mh[h].sess]))
          => /\ UNCHANGED <<wallets, transactions, ledger>>
             /\ userSessions'[mh[h].chat] = Null
             /\ \E x \in HandlerSlots :
                   /\ mh'[x].pc = "done" /\ mh'[x].outcome = "insufficient"
                   /\ mh'[x].debited = Null /\ mh'[x].sent = Null
                   /\ mh'[x].recorded = Null]_vars

\* an execute was aborted on a wallet whose balance was below the cost
C6_Witness ==
    /\ \E h \in HandlerSlots : /\ mh[h].pc = "done" /\ mh[h].outcome = "insufficient"
                               /\ Len(wallets) > 0 /\ wallets[1] < mh[h].checked
    /\ userSessions[1] = Null

\* C7: in every execute the provider is called only after the debit has been
\* written, and the transaction is recorded only after the provider has
\* answered, with status success exactly if the answer has code "000" and
\* status "delivered", and failed otherwise.
C7_DebitThenProviderThenRecord ==
    \A h \in HandlerSlots :
        /\ mh[h].sent # Null =>
              /\ mh[h].debited # Null
              /\ mh[h].pc \notin {"execUser", "execWallet", "execDebitRead", "execDebitWrite"}
        /\ mh[h].recorded # Null =>
              /\ mh[h].sent # Null
              /\ mh[h].result # NoResult
              /\ mh[h].status = IF mh[h].result.code = "000" /\ mh[h].result.status = "delivered"
                                THEN "success" ELSE "failed"
              /\ \E i \in 1..Len(transactions) :
                    /\ transactions[i].reference = mh[h].reference
                    /\ transactions[i].status = mh[h].status

\* an execute recorded a failed transaction for an answer that was not a delivery
C7_Witness ==
    \E h \in HandlerSlots :
        /\ mh[h].recorded # Null /\ mh[h].debited # Null
        /\ mh[h].result = Rejected /\ mh[h].status = "failed"

\* C8: a finished execute that debited the wallet and whose provider step did
\* not end in a delivery has recorded a transaction with status failed.
C8_FailureRecorded ==
    \A h \in HandlerSlots :
        (/\ mh[h].pc = "done" /\ mh[h].debited # Null /\ mh[h].sent # Null
         /\ ~(mh[h].result.code = "000" /\ mh[h].result.status = "delivered"))
        => mh[h].recorded # Null /\ mh[h].status = "failed"

\* C9: the amount an execute checked, debited, sent to the provider and
\* recorded is the amount the user confirmed.
C9_ConfirmedAmountThroughout ==
    \A h \in HandlerSlots :
        /\ mh[h].checked # Null => mh[h].checked = mh[h].confirmed
        /\ mh[h].debited # Null => mh[h].debited = mh[h].confirmed
        /\ mh[h].sent # Null => mh[h].sent = mh[h].confirmed
        /\ mh[h].recorded # Null => mh[h].recorded = mh[h].confirmed

(***************************************************************************)
(* Properties of the reconciliation engine's writes.                       *)
(***************************************************************************)
\* C11: when a webhook run or a polling run credits the wallet for a reference
\* whose pending transaction record it found, the amount it credits is the
\* amount of that record.
C11_CreditsRecordAmount ==
    /\ \A w \in WebhookSlots :
          (wh[w].pc = "walletWrite" /\ wh[w].existing # Null)
              => wh[w].amount = transactions[wh[w].existing].amount
    /\ \A t \in TickSlots :
          (ticks[t].pc = "walletWrite" /\ ticks[t].existing # Null)
              => loops[ticks[t].reference].amount = transactions[ticks[t].existing].amount
    /\ (funds = 1 /\ Len(wallets) > 0 /\ credits[FundRef(1)] = 1 /\ Len(transactions) > 0)
          => wallets[1] = transactions[1].amount

\* a webhook run credited the wallet with the amount of the pending record it found
C11_Witness ==
    \E w \in WebhookSlots :
        /\ wh[w].pc = "walletWrite" /\ wh[w].existing # Null
        /\ wh[w].seen = "pending"
        /\ wh[w].amount = 500 /\ transactions[wh[w].existing].amount = 500
        /\ wallets = <<500>>

\* C12: once a polling run has been told by the gateway that the payment of
\* its reference failed, has sent the failure notice and has finished, the
\* transaction of that reference is no longer pending.
C12_PendingSettles ==
    \A t \in TickSlots :
        (ticks[t].pc = "done" /\ ticks[t].failed > 0)
            => \A i \in 1..Len(transactions) :
                   transactions[i].reference \in FundRefs
                       => transactions[i].status \in {"success", "failed"}

\* C13: the record store holds at most one transaction per reference.
C13_OneTransactionPerReference ==
    \A i, j \in 1..Len(transactions) :
        transactions[i].reference = transactions[j].reference => i = j

(***************************************************************************)
(* Properties of the webhook's guards.                                     *)
(***************************************************************************)
\* the arrival of a request left everything but the webhook runs as it was and
\* ended a run at once with response `status`, with no lookup made, no
\* verification, no credit, no transaction write and no notification
Turned(status) ==
    /\ UNCHANGED <<configVars, storeVars, gateway, clock, sessionVars, mh, pollVars, histVars>>
    /\ \A w \in WebhookSlots : Busy(wh'[w]) => \E x \in WebhookSlots : wh'[w] = wh[x]
    /\ \E w \in WebhookSlots :
          /\ wh'[w].pc = "done" /\ wh'[w].res = status
          /\ wh'[w].seen = "" /\ wh'[w].verification = ""
          /\ wh'[w].credited = 0 /\ wh'[w].wrote = 0 /\ wh'[w].notified = 0

\* C14: a webhook request whose signature header is not the keyed hash of its
\* body is answered 401 and has no effect: no lookup, no verification, no
\* credit, no transaction write and no notification.
C14_BadSignatureRejected ==
    [][\A reference \in FundRefs, event \in {"charge.success", "charge.failed"} :
          (WebhookStart(reference, FALSE, event) \/ WebhookHashThrows(reference, FALSE, event))
              => Turned(401)]_vars

\* C15: a correctly signed webhook request whose event is not charge.success is
\* answered 200 and causes no lookup, no verification, no credit and no
\* transaction write.
C15_OtherEventsIgnored ==
    [][\A reference \in FundRefs :
          (WebhookStart(reference, TRUE, "charge.failed")
              \/ WebhookHashThrows(reference, TRUE, "charge.failed"))
              => Turned(200)]_vars

(***************************************************************************)
(* Properties of the session machine.                                      *)
(***************************************************************************)
\* whether chat c has a session, and the session object it has
SessionOf(us, hp, c) ==
    [has |-> us[c] # Null, s |-> IF us[c] = Null THEN NewSession ELSE hp[us[c]]]

\* a step of the handling of a message or a callback of chat c
HandlingOf(c) ==
    \/ \E text \in OwnTexts \cup OtherTexts : MsgStart(c, text)
    \/ \E data \in Selections : CbStart(c, data)
    \/ \E h \in HandlerSlots : mh[h].chat = c /\ (CbAnswered(h) \/ ExecStep(h))

\* C16: no step of the handling of a message or callback of chat A creates,
\* modifies or deletes the session of another chat B: a step after which B's
\* session differs is no step of the handling of an event of A.
C16_ChatsIsolated ==
    [][\A a \in Chats, b \in Chats :
          (a # b /\ SessionOf(userSessions', heap', b) # SessionOf(userSessions, heap, b))
              => ~HandlingOf(a)]_vars

\* the user's chat has finished an execute, which removed its session, while the other
\* chat's session holds the fields that chat entered
C16_Witness ==
    /\ executes[1] = 1 /\ userSessions[1] = Null
    /\ \E h \in HandlerSlots : mh[h].pc = "done" /\ mh[h].recorded = 2000
    /\ userSessions[2] # Null
    /\ heap[userSessions[2]].stage = "awaiting_airtime_phone"
    /\ heap[userSessions[2]].airtimeAmount = 70

\* C17: the handling of a /cancel command or of a cancel_operation callback
\* removes the chat's session whatever its stage, and an event of a chat that
\* has no session is handled from idle: from a new session with no stage and
\* no accumulated fields.
C17_CancelClears ==
    [][\A c \in Chats :
          /\ userSessions'[c] # Null => ~(CancelCommand(c) \/ CbStart(c, "cancel_operation"))
          /\ (userSessions[c] = Null /\ userSessions'[c] # Null)
                => \A text \in TextsOf(userFlow) :
                      MsgStart(c, text)
                          => heap'[userSessions'[c]] = Dispatch(NewSession, text).s]_vars

\* a cancel was handled after the chat, with an execute behind it, had reached a
\* confirm stage again, and the chat has no session
C17_Witness ==
    /\ userSessions[1] = Null
    /\ executes[1] = 1 /\ fired[1] = 0
    /\ \E h \in HandlerSlots : mh[h].pc = "done" /\ mh[h].outcome = "cancelled"

\* a text arrives for chat c while its session is in a confirm stage
ConfirmGets(c, text) ==
    /\ userSessions[c] # Null
    /\ heap[userSessions[c]].stage \in ConfirmStages
    /\ MsgStart(c, text)

\* what a text does in a confirm stage: it starts the execute, or it removes the
\* session and starts none, or it is answered with a re-prompt and leaves the session,
\* stage and fields, as it was
Executes(c) == executes'[c] = executes[c] + 1 /\ funds' = funds
Aborts(c) == userSessions'[c] = Null /\ executes' = executes /\ funds' = funds
Reprompts(c) ==
    /\ executes' = executes /\ funds' = funds
    /\ SessionOf(userSessions', heap', c) = SessionOf(userSessions, heap, c)
    /\ \E h \in HandlerSlots :
          mh'[h].pc = "done" /\ mh'[h].outcome = "replied" /\ mh'[h].replies = 1

SelectStageOf(data) ==
    CASE CallbackPrefix(data) = "airtime_network_" -> "awaiting_airtime_network"
      [] CallbackPrefix(data) = "data_network_" -> "awaiting_data_network"
      [] CallbackPrefix(data) = "electricity_provider_" -> "awaiting_electricity_provider"
      [] CallbackPrefix(data) = "tv_provider_" -> "awaiting_tv_provider"
      [] OTHER -> ""

\* C19: a selection callback changes the stage of the session only when the
\* session is in the select stage that matches the selection; in any other
\* stage, or on a session that was just created for the callback, the stage
\* stays as it was.
C19_SelectionOnlyFromSelectStage ==
    [][\A h \in HandlerSlots :
          (/\ mh[h].pc = "cbAnswer"
           /\ mh[h].sess # Null
           /\ heap'[mh[h].sess].stage # heap[mh[h].sess].stage
           /\ CbAnswered(h))
              => heap[mh[h].sess].stage = SelectStageOf(mh[h].text)]_vars

\* the text fails the validation of the stage the session s is in: a phone number
\* whose digits are not 10 to 14, a meter or card number of under 10 digits, an
\* amount below the minimum of the flow, a code that matches none of the plans
\* the session lists
Fails(s, text) ==
    CASE s.stage \in {"awaiting_airtime_phone", "awaiting_data_phone"} ->
            DigitCount(text) < 10 \/ DigitCount(text) > 14
      [] s.stage \in {"awaiting_meter_number", "awaiting_card_number"} -> DigitCount(text) < 10
      [] s.stage = "awaiting_airtime_amount" -> parseFloat(text) # NaN /\ parseFloat(text) < 50
      [] s.stage = "awaiting_meter_amount" -> parseFloat(text) # NaN /\ parseFloat(text) < 100
      [] s.stage \in {"awaiting_data_variation", "awaiting_tv_variation"} ->
            /\ s.variations # Undefined
            /\ \A i \in 1..Len(s.variations) :
                  toLowerCase(s.variations[i][1]) # toLowerCase(text)
      [] OTHER -> FALSE

\* C20: an input that fails validation leaves the stage and the fields of the
\* session as they were and is answered with one re-prompt: a phone number whose
\* digits are not 10 to 14, a meter or card number of under 10 digits, an amount
\* below 50 (airtime) or 100 (electricity), a variation code that matches none of
\* the listed plans whatever the case of its letters, and a selection whose value
\* is not a supported one.
C20_InvalidInputOnlyReprompts ==
    [][/\ \A c \in Private, text \in TextsOf(userFlow) :
             (/\ userSessions[c] # Null
              /\ Fails(heap[userSessions[c]], text)
              /\ MsgStart(c, text))
                 => Reprompts(c)
       /\ \A h \in HandlerSlots :
             (/\ mh[h].pc = "cbAnswer"
              /\ Unrecognized(mh[h].text)
              /\ CbAnswered(h))
                 => /\ \A c \in Chats :
                          SessionOf(userSessions', heap', c) = SessionOf(userSessions, heap, c)
                    /\ executes' = executes
                    /\ \E x \in HandlerSlots :
                          mh'[x].pc = "done" /\ mh'[x].outcome = "invalid"
                                             /\ mh'[x].replies = 1]_vars

\* an unsupported network was selected in the select stage, which the session is
\* still in
C20_Witness ==
    /\ userSessions[TelegramId] # Null
    /\ heap[userSessions[TelegramId]].stage = "awaiting_airtime_network"
    /\ \E h \in HandlerSlots :
          mh[h].pc = "done" /\ mh[h].outcome = "invalid" /\ mh[h].replies = 1

\* C21: when the verification of a meter number returns a code other than '000'
\* the chat's session is removed, the session object does not move to the amount
\* stage and holds no amount, and nothing is debited or bought on that step; a
\* session object enters the amount stage only on a verification that returned '000'.
C21_MeterRejectedAborts ==
    [][/\ \A o \in Objects :
             (heap'[o].stage = "awaiting_meter_amount" /\ heap[o].stage # "awaiting_meter_amount")
                 => \E h \in HandlerSlots : mh[h].pc = "meterVerify" /\ MeterVerified(h, "000")
       /\ \A h \in HandlerSlots :
          (mh[h].pc = "meterVerify" /\ MeterVerified(h, "011"))
              => /\ userSessions'[mh[h].chat] = Null
                 /\ \A o \in Objects :
                       /\ heap'[o].stage = "awaiting_meter_amount"
                             => heap[o].stage = "awaiting_meter_amount"
                       /\ heap'[o].amount # Null => heap'[o].amount = heap[o].amount
                 /\ wallets' = wallets /\ ledger' = ledger /\ transactions' = transactions
                 /\ executes' = executes
                 /\ \E x \in HandlerSlots :
                       mh'[x].pc = "done" /\ mh'[x].outcome = "unverified"
                                          /\ mh'[x].debited = Null /\ mh'[x].sent = Null]_vars

\* a meter number was rejected: the chat has no session and nothing was debited
C21_Witness ==
    /\ userFlow = "electricity"
    /\ userSessions[TelegramId] = Null
    /\ executes[TelegramId] = 0
    /\ wallets # <<>> /\ wallets[1] = 3000
    /\ \E h \in HandlerSlots : mh[h].pc = "done" /\ mh[h].outcome = "unverified"

\* C22: when the plan lookup of the data or the TV flow returns no list or an
\* empty one, the chat's session is removed and nothing is debited or bought on
\* that step; a session object enters a confirm stage of these flows only with a
\* plan of the non-empty list it holds.
C22_NoPlansAborts ==
    [][/\ \A o \in Objects :
             (/\ heap'[o].stage \in {"confirm_data", "confirm_tv"}
              /\ heap[o].stage \notin {"confirm_data", "confirm_tv"})
                 => /\ heap[o].variations \notin {Undefined, <<>>}
                    /\ \E i \in 1..Len(heap[o].variations) :
                          heap'[o].variation = heap[o].variations[i]
       /\ \A h \in HandlerSlots :
             mh[h].pc \in {"dataVariations", "tvVariations"}
                 => \A response \in VariationOutcomes(mh[h].service) :
                       (/\ response.code # "throw"
                        /\ response.varations \in {Undefined, <<>>}
                        /\ VariationsReturned(h, response))
                           => /\ userSessions'[mh[h].chat] = Null
                              /\ wallets' = wallets /\ ledger' = ledger
                              /\ transactions' = transactions
                              /\ executes' = executes
                              /\ \E x \in HandlerSlots :
                                    /\ mh'[x].pc = "done" /\ mh'[x].outcome = "noPlans"
                                    /\ mh'[x].debited = Null /\ mh'[x].sent = Null]_vars

\* the lookup of the data or the TV flow found no plan: the chat has no session
\* and nothing was debited
C22_Witness ==
    /\ userFlow \in {"data", "tv"}
    /\ userSessions[TelegramId] = Null
    /\ executes[TelegramId] = 0
    /\ \E h \in HandlerSlots : mh[h].pc = "done" /\ mh[h].outcome = "noPlans"

\* the runs of the handlers that are in progress
InProgress(m) == {x \in HandlerSlots : Busy(m[x])}

\* C23: on the step that ends an execute, whether it ends with the success
\* verdict, the failed verdict, the insufficient balance or a thrown error, the
\* chat is left with no session entry.
C23_ExecuteLeavesNoSession ==
    [][\A h \in HandlerSlots :
          (/\ mh[h].pc \in {"execUser", "execWallet", "execDebitRead", "execDebitWrite",
                             "execProvider", "execTx"}
           /\ Cardinality(InProgress(mh')) < Cardinality(InProgress(mh))
           /\ ExecStep(h))
              => /\ userSessions'[mh[h].chat] = Null
                 /\ \E x \in HandlerSlots :
                       /\ mh'[x].pc = "done"
                       /\ mh'[x].outcome \in {"success", "failed", "insufficient", "error"}]_vars

\* an execute ended with a thrown error after its debit, and the chat has no session
C23_Witness ==
    /\ userSessions[TelegramId] = Null
    /\ \E h \in HandlerSlots :
          mh[h].pc = "done" /\ mh[h].outcome = "error" /\ mh[h].debited # Null

\* the interval of the loop for `reference` fires on this step
Fires(reference) ==
    \E x \in TickSlots :
        ~Busy(ticks[x]) /\ ticks'[x].pc = "verify" /\ ticks'[x].reference = reference

\* the callbacks of the loop for `reference` that are in progress
AwaitedOf(reference) == {x \in Awaited : ticks[x].reference = reference}

\* C24: a polling loop fires at most maxAttempts times: a callback starts only
\* while the callbacks that have counted their attempt and those in progress are
\* fewer than maxAttempts; the callback that observes success or failed stops the
\* interval, as does the one that counts the last attempt, and a stopped
\* interval never fires again.
C24_LoopStopsWithinMaxAttempts ==
    [][\A reference \in FundRefs :
          reference \in DOMAIN loops
              => /\ Fires(reference)
                       => loops[reference].attempts + Cardinality(AwaitedOf(reference))
                              < maxAttempts
                 /\ \A t \in TickSlots :
                       (/\ ticks[t].pc = "verify"
                        /\ ticks[t].reference = reference
                        /\ ticks[t].verification \in {"success", "failed"}
                        /\ TickVerified(t))
                           => ~loops'[reference].active
                 /\ ~loops[reference].active
                       => ~loops'[reference].active /\ ~Fires(reference)
                 /\ loops'[reference].attempts >= maxAttempts
                       => ~loops'[reference].active]_vars

\* C25: a callback of the polling loop that sends the 'verification timed out'
\* notice has neither credited the wallet nor reported the payment failed, also
\* when it is the callback of the last attempt.
C25_TimeoutOnlyWithoutOutcome ==
    \A t \in TickSlots :
        ticks[t].timedOut > 0 => ticks[t].credited = 0 /\ ticks[t].failed = 0

\* the callback t is about to land in the catch of line 214: its verification
\* threw, or a call of its settlement throws
Caught(t) ==
    LET r == ticks[t]
    IN  \/ r.pc = "verify" /\ r.verification = "throw"
        \/ r.pc = "getUser" /\ r.user = Null
        \/ r.pc = "listTx" /\ ~AlreadyProcessed(r.seen)
                           /\ ~LedgerAccepts(loops[r.reference].amount)
        \/ r.pc = "walletRead"
              /\ \/ r.balance = NoWallet
                 \/ Insufficient(NewBalance(r.balance, loops[r.reference].amount, "credit"))

\* C26: an error thrown in a callback of the polling loop does not end the loop:
\* after the catch the interval is still running, unless the callback has counted
\* the last attempt and sends the timeout notice.
C26_ErrorKeepsPolling ==
    [][\A t \in TickSlots :
          (Caught(t) /\ TickStep(t))
              => \/ loops'[ticks[t].reference].active
                 \/ \E x \in TickSlots : ticks'[x].pc = "timeoutNotify"]_vars

\* C27: the user has at most one wallet document whatever the interleaving of
\* the createUser and ensureUserWallet calls, and a credit or a debit is applied
\* only to a user who has a wallet.
C27_AtMostOneWallet ==
    /\ Len(wallets) <= 1
    /\ ledger # 0 => Len(wallets) >= 1

\* C28: updateWalletBalance goes on to read and write the wallet only with an
\* amount that is a positive number; NaN, a negative amount and 0 end in an error
\* with the balance not written.
C28_OnlyPositiveAmounts ==
    \A h \in HandlerSlots :
        /\ mh[h].pc = "ledgerRead" => mh[h].cost # NaN /\ mh[h].cost > 0
        /\ mh[h].pc = "done" /\ mh[h].outcome = "written" => mh[h].checked > 0

\* C29: in every flow the status recorded for a purchase is success if and only
\* if the provider's answer has the code '000' and the delivery status
\* 'delivered'; every other answer is recorded as failed.
C29_VerdictRule ==
    \A h \in HandlerSlots :
        (mh[h].pc \in {"execTx", "done"} /\ mh[h].recorded # Null)
            => /\ mh[h].status \in {"success", "failed"}
               /\ mh[h].status = "success"
                     <=> (mh[h].result.code = "000" /\ mh[h].result.status = "delivered")
               /\ \E i \in 1..Len(transactions) :
                     /\ transactions[i].reference = mh[h].reference
                     /\ transactions[i].status = mh[h].status
                     /\ transactions[i].type = TxType(userFlow)

\* a purchase whose answer had the code '000' and no delivery status was recorded
\* as failed
C29_Witness ==
    \E h \in HandlerSlots :
        /\ mh[h].pc = "done" /\ mh[h].recorded # Null
        /\ mh[h].result = Unmarked /\ mh[h].status = "failed"
        /\ \E i \in 1..Len(transactions) :
              transactions[i].reference = mh[h].reference /\ transactions[i].status = "failed"

\* C30: for every reference generated from a prefix, a user id and a reading of the
\* clock, the second "_"-separated field of its text is exactly the user id it was
\* generated for.
C30_ReferenceYieldsUserId ==
    wh[1].pc = "getUser" => wh[1].user = mh[1].user

C30_Witness ==
    /\ wh[1].pc = "getUser"
    /\ mh[1].kind = "AIRTIME" /\ mh[1].user = <<"a", "4">>
    /\ wh[1].reference = <<"A", "I", "R", "T", "I", "M", "E", "_", "a", "4", "_", "1", "7", "0", "0">>
    /\ wh[1].user = <<"a", "4">>

\* the runs of the message and callback_query handlers in progress for the chat c
RunsOf(c) == {h \in HandlerSlots : Busy(mh[h]) /\ mh[h].chat = c}

\* C31: at most one handler run is in progress for a chat at a time: no message
\* or callback of a chat is started while an earlier run for the chat is
\* suspended on an external call.
C31_OneHandlerPerChat ==
    \A c \in Chats : Cardinality(RunsOf(c)) <= 1

\* C32: no step of the webhook handler and no step of a callback of the polling
\* loop creates, changes or removes the session of a chat: a purchase flow in
\* progress in the chat keeps its stage and fields when a funding poll succeeds,
\* fails or times out.
C32_ReconciliationLeavesSessions ==
    [][/\ \A t \in TickSlots :
             (Busy(ticks[t]) /\ TickStep(t)) => UNCHANGED sessionVars
       /\ \A w \in WebhookSlots :
             (Busy(wh[w]) /\ WebhookStep(w)) => UNCHANGED sessionVars]_vars

\* the chats with an execute in progress
Executing == {mh[h].chat : h \in {x \in HandlerSlots : mh[x].pc \in
                 {"execUser", "execWallet", "execDebitRead", "execDebitWrite",
                  "execProvider", "execTx"}}}

\* C33: the periodic cleanup removes the session of a chat only if the session's
\* last activity is more than SESSION_TIMEOUT old, and never the session of a
\* chat whose execute is in progress.
C33_SweepSparesExecutes ==
    [][\A c \in Chats :
          (userSessions[c] # Null /\ userSessions'[c] = Null /\ Sweep)
              => Expired(inactivity[c]) /\ c \notin Executing]_vars

\* the run h lands in the catch of its handler on this step
Catches(h) ==
    \/ mh[h].pc = "cbAnswer" /\ CbCaught(h)
    \/ mh[h].pc \in {"execUser", "execWallet", "execDebitRead", "execProvider"} /\ Catch(h)

\* C34: an error thrown in the message handler or in the callback_query handler
\* is caught, the user is sent the failure message, and the session of the chat
\* is removed, in both handlers alike.
C34_CaughtErrorResets ==
    [][\A h \in HandlerSlots :
          Catches(h)
              => /\ \E x \in HandlerSlots :
                       /\ mh'[x].pc = "done" /\ mh'[x].outcome = "error"
                       /\ mh'[x].replies = mh[h].replies + 1
                 /\ userSessions'[mh[h].chat] = Null]_vars

\* the requests issued by the calls in progress
RECURSIVE Pending(_)
Pending(m) ==
    IF m = <<>> THEN 0
    ELSE (IF Busy(Head(m)) THEN Head(m).requests ELSE 0) + Pending(Tail(m))

\* the answer to a request of the call h made the call issue one more request
Retried(h) ==
    /\ Cardinality(InProgress(mh')) = Cardinality(InProgress(mh))
    /\ Pending(mh') = Pending(mh) + 1

\* the answer to a request of the call h ended the call in failure
Failed(h, outcome) ==
    /\ Cardinality(InProgress(mh')) = Cardinality(InProgress(mh)) - 1
    /\ Pending(mh') = Pending(mh) - mh[h].requests
    /\ \E x \in HandlerSlots : /\ mh'[x].pc = "done" /\ mh'[x].outcome = outcome
                                /\ mh'[x].requests = mh[h].requests

\* C35: a call of initializePayment issues at most maxRetries (3) requests; it
\* issues a further request only after a rate-limit answer (429) to one of its
\* first two, and any other error, or a 429 to its third request, makes the
\* call fail at once.
C35_InitializeRetriesOnRateLimit ==
    [][/\ \A h \in HandlerSlots : mh'[h].requests <= maxRetries
       /\ \A h \in HandlerSlots, status \in Responses :
             (mh[h].pc = "post" /\ Posted(h, status))
                 => /\ Retried(h) <=> (status = 429 /\ mh[h].requests < maxRetries)
                    /\ (status # 200 /\ ~(status = 429 /\ mh[h].requests < maxRetries))
                          => Failed(h, "initFailed")]_vars

C35_Witness ==
    \E h \in HandlerSlots :
        mh[h].pc = "done" /\ mh[h].outcome = "initFailed" /\ mh[h].requests = maxRetries

\* C36: a call of verifyPayment that is answered with a rate limit (429) issues
\* a further request, up to maxRetries (3) in all, before it fails.
C36_VerifyRetriesOnRateLimit ==
    [][\A h \in HandlerSlots :
          (mh[h].pc = "get" /\ mh[h].requests < maxRetries /\ Got(h, 429))
              => Retried(h)]_vars

\* the debits applied by executes that have not called the provider yet
RECURSIVE Unsent(_)
Unsent(m) ==
    IF m = <<>> THEN 0
    ELSE (IF Head(m).pc = "execDebitWrite" THEN Head(m).debited ELSE 0) + Unsent(Tail(m))

\* C37: the total cost of the purchases for which the provider was called never
\* exceeds the initial balance plus the credits applied.  The provider is called
\* only after the ledger applied the debit of the purchase, and `ledger` is the
\* initial balance plus the credits less every debit applied: the purchases
\* sent to the provider have cost what the ledger has debited, less the debits
\* of the executes that have not reached the provider call.
C37_SpendWithinFunds == ledger + Unsent(mh) >= 0

\* C38: the step that ends an execute leaves a flow the user has started in the
\* chat since the execute began as it is: if the chat's session is in a stage
\* when the execute ends, the chat keeps that session with its stage and fields.
C38_ExecuteSparesNewFlow ==
    [][\A h \in HandlerSlots :
          (/\ mh[h].pc \in {"execUser", "execWallet", "execDebitRead", "execDebitWrite",
                             "execProvider", "execTx"}
           /\ SessionOf(userSessions, heap, mh[h].chat).s.stage # NoStage
           /\ Cardinality(InProgress(mh')) < Cardinality(InProgress(mh))
           /\ ExecStep(h))
              => SessionOf(userSessions', heap', mh[h].chat)
                     = SessionOf(userSessions, heap, mh[h].chat)]_vars

\* C39: a /fund command that was given a payment link has sent exactly one reply
\* when its handler returns, the link, after creating exactly one pending credit
\* transaction for its reference; and while no /fund command has passed the
\* test of the amount, no payment is initialised and no transaction exists.
C39_FundRepliesOnce ==
    /\ \A h \in HandlerSlots :
          (mh[h].pc = "done" /\ mh[h].outcome = "funded")
              => /\ mh[h].replies = 1
                 /\ Cardinality({i \in 1..Len(transactions) :
                                    transactions[i].reference = mh[h].reference}) = 1
    /\ funds = 0 => gateway = <<>> /\ transactions = <<>>

\* C40: in test mode the variation lookup of a data flow for MTN and of a TV
\* flow for DSTV, made for a chat that still holds the session, yields the
\* plans of the service, a list that is not empty, and leaves the chat at plan
\* selection with that list in its session.
C40_MockPlansListed ==
    [][\A h \in HandlerSlots :
          (/\ vtpassTest
           /\ mh[h].pc \in {"dataVariations", "tvVariations"}
           /\ mh[h].service \in {"mtn-data", "dstv"}
           /\ mh[h].sess # Null /\ userSessions[mh[h].chat] = mh[h].sess
           /\ LookupStep(h))
              => /\ PlansOf(mh[h].service) # <<>>
                 /\ userSessions'[mh[h].chat] = mh[h].sess
                 /\ heap'[mh[h].sess].variations = PlansOf(mh[h].service)
                 /\ heap'[mh[h].sess].stage \in {"awaiting_data_variation",
                                                  "awaiting_tv_variation"}]_vars

====
